---- MODULE Spec2Model ----
(***************************************************************************)
(* Model of the Notion scripts of MoovsZeroChurn: the markdown-to-block    *)
(* converter of notion_client.py (markdown_to_blocks with                  *)
(* parse_inline_formatting), its copy in sync-problem-to-notion.py         *)
(* (markdown_to_notion_blocks), the page-creation batching, and the        *)
(* update_page and search_in_database operations of the client.            *)
(*                                                                         *)
(* A text is a sequence of characters, each a one-character string; the    *)
(* backtick, which a TLA+ string cannot hold, is the token BT.  Indices    *)
(* into lines are Python's (0-based): Python's lines[k] is lines[k + 1].   *)
(***************************************************************************)
EXTENDS Integers, Sequences, FiniteSets, TLC

VARIABLES markdown, lines, i, blocks, src, pc, caller, requests,
          args, existing, has_more, result, remote

vars == <<markdown, lines, i, blocks, src, pc, caller, requests,
          args, existing, has_more, result, remote>>

\* the state of update_page and search_in_database and the remote store (in
\* SpecClient the remote is not kept: any answer is possible), which the
\* converter and create_page leave alone
client == <<args, existing, has_more, result, remote>>

\* no update_page or search_in_database call is under way
NoClientCall ==
    /\ args = <<>>
    /\ existing = <<>>
    /\ has_more = TRUE
    /\ result = <<>>
    /\ remote = <<>>

(***************************************************************************)
(* Program constants                                                       *)
(***************************************************************************)
\* content[:2000], '\n'.join(...)[:2000]
MaxContent == 2000

\* blocks[:100], range(100, len(blocks), 100)
BatchSize == 100

\* page_size=100 of the listing request
PageSize == 100

(***************************************************************************)
(* Bounds of the model                                                     *)
(***************************************************************************)
\* longest document of single-line constructs
MaxFlatLines == 2

\* longest document of table and fence runs
MaxRunLines == 3

\* longest document holding over-long lines
MaxLongLines == 2

\* longest block sequence handed to create_page
MaxBlocks == 250

\* the longest text over Alphabet handed to parse_inline_formatting
MaxTextLen == 5

\* the most blocks the remote lists in one answer, and the most listings the
\* remote answers with has_more in one update_page call
MaxResults == 2

MaxRounds == 2

\* how far past 0 and past a full listing the number of a page's children
\* goes, and the most listings logged in one call
MaxExtra == 1

MaxListings == 3

\* the number of runs of the sync script on one file
MaxRuns == 2

\* the most options given in the file and on the command line together
MaxOptions == 2

(***************************************************************************)
(* Text helpers (Python str methods)                                       *)
(***************************************************************************)
Min(S) == CHOOSE x \in S : \A y \in S : x <= y

\* str.strip() / regex \s whitespace
IsSpace(c) == c \in {" ", "\t", "\r"}

IsDigit(c) == c \in {"0", "1", "2", "3", "4", "5", "6", "7", "8", "9"}

\* s[:n]
Take(s, n) == IF Len(s) <= n THEN s ELSE SubSeq(s, 1, n)

\* s[n:]
Drop(s, n) == IF Len(s) <= n THEN <<>> ELSE SubSeq(s, n + 1, Len(s))

\* s.startswith(p)
StartsWith(s, p) == Len(s) >= Len(p) /\ SubSeq(s, 1, Len(p)) = p

\* s.endswith(p)
EndsWith(s, p) == Len(s) >= Len(p) /\ SubSeq(s, Len(s) - Len(p) + 1, Len(s)) = p

\* s.lstrip()
RECURSIVE LStrip(_)
LStrip(s) == IF s # <<>> /\ IsSpace(s[1]) THEN LStrip(Tail(s)) ELSE s

\* s.rstrip()
RECURSIVE RStrip(_)
RStrip(s) ==
    IF s # <<>> /\ IsSpace(s[Len(s)]) THEN RStrip(SubSeq(s, 1, Len(s) - 1)) ELSE s

\* s.strip()
Strip(s) == RStrip(LStrip(s))

\* first index >= from where s holds character c, 0 when there is none
FirstAt(s, c, from) ==
    LET hits == {q \in from..Len(s) : s[q] = c}
    IN  IF hits = {} THEN 0 ELSE Min(hits)

\* '\n'.join(ls)
RECURSIVE JoinNL(_)
JoinNL(ls) ==
    IF ls = <<>> THEN <<>>
    ELSE IF Len(ls) = 1 THEN ls[1]
    ELSE ls[1] \o <<"\n">> \o JoinNL(Tail(ls))

\* s.split('\n')
Split(s) ==
    LET nl     == {q \in 1..Len(s) : s[q] = "\n"}
        cut(k) == IF k = 0 THEN 0
                  ELSE IF k > Cardinality(nl) THEN Len(s) + 1
                  ELSE CHOOSE q \in nl : Cardinality({r \in nl : r < q}) = k - 1
    IN  [k \in 1..(Cardinality(nl) + 1) |->
            IF cut(k - 1) + 1 > cut(k) - 1 THEN <<>>
            ELSE SubSeq(s, cut(k - 1) + 1, cut(k) - 1)]

(***************************************************************************)
(* parse_inline_formatting                                                 *)
(***************************************************************************)
\* the backtick character
BT == "BACKTICK"

Delims == {BT, "*", "_"}

\* one single-delimiter alternative d[^d]+d of the pattern at position p (d is
\* BT, * or _): the index of the closing delimiter, 0 when it does not match
RunEnd(t, p, d) ==
    IF p + 1 <= Len(t) /\ t[p] = d /\ t[p + 1] # d
    THEN FirstAt(t, d, p + 2)
    ELSE 0

\* the alternative \*\*[^*]+\*\* at position p: index of the last *, or 0
BoldEnd(t, p) ==
    IF p + 2 <= Len(t) /\ t[p] = "*" /\ t[p + 1] = "*" /\ t[p + 2] # "*"
    THEN LET q == FirstAt(t, "*", p + 3)
         IN  IF q # 0 /\ q + 1 <= Len(t) /\ t[q + 1] = "*" THEN q + 1 ELSE 0
    ELSE 0

\* the last alternative (a run free of BT, * and _) at position p: index of the last character, or 0
PlainEnd(t, p) ==
    IF t[p] \in Delims THEN 0
    ELSE LET stops == {q \in (p + 1)..Len(t) : t[q] \in Delims}
         IN  IF stops = {} THEN Len(t) ELSE Min(stops) - 1

\* the pattern tried at position p, alternatives in the order written:
\* code, bold, italic with *, italic with _, plain
MatchEnd(t, p) ==
    IF RunEnd(t, p, BT) # 0 THEN RunEnd(t, p, BT)
    ELSE IF BoldEnd(t, p) # 0 THEN BoldEnd(t, p)
    ELSE IF RunEnd(t, p, "*") # 0 THEN RunEnd(t, p, "*")
    ELSE IF RunEnd(t, p, "_") # 0 THEN RunEnd(t, p, "_")
    ELSE PlainEnd(t, p)

\* the first position >= p where the pattern matches, 0 when there is none
\* (the scan of re.findall skips the characters where no alternative matches)
NextMatch(t, p) ==
    IF \E q \in p..Len(t) : MatchEnd(t, q) # 0
    THEN CHOOSE q \in p..Len(t) :
            MatchEnd(t, q) # 0 /\ \A r \in p..(q - 1) : MatchEnd(t, r) = 0
    ELSE 0

\* re.findall(pattern, text) scanning from position p
RECURSIVE FindAllFrom(_, _)
FindAllFrom(t, p) ==
    LET q == NextMatch(t, p)
    IN  IF q = 0 THEN <<>>
        ELSE <<SubSeq(t, q, MatchEnd(t, q))>> \o FindAllFrom(t, MatchEnd(t, q) + 1)

FindAll(t) == FindAllFrom(t, 1)

\* the slice [:2000] left out
TruncateNothing(s) == s

\* content[:2000]
Truncate(s) == Take(s, MaxContent)

Annotated(content, bold, italic, code) ==
    [content |-> Truncate(content),
     bold |-> bold, italic |-> italic, code |-> code,
     strikethrough |-> FALSE, underline |-> FALSE, color |-> "default"]

\* SpanOf with the italic test before the bold test
SpanOfItalicFirst(part) ==
    IF StartsWith(part, <<BT>>) /\ EndsWith(part, <<BT>>)
    THEN Annotated(SubSeq(part, 2, Len(part) - 1), FALSE, FALSE, TRUE)
    ELSE IF \/ StartsWith(part, <<"*">>) /\ EndsWith(part, <<"*">>)
            \/ StartsWith(part, <<"_">>) /\ EndsWith(part, <<"_">>)
    THEN Annotated(SubSeq(part, 2, Len(part) - 1), FALSE, TRUE, FALSE)
    ELSE IF StartsWith(part, <<"*", "*">>) /\ EndsWith(part, <<"*", "*">>)
    THEN Annotated(SubSeq(part, 3, Len(part) - 2), TRUE, FALSE, FALSE)
    ELSE Annotated(part, FALSE, FALSE, FALSE)

\* SpanOf with "if" in place of the last "elif": a bold part also passes the
\* italic test
SpanOfBoldAlsoItalic(part) ==
    IF StartsWith(part, <<BT>>) /\ EndsWith(part, <<BT>>)
    THEN Annotated(SubSeq(part, 2, Len(part) - 1), FALSE, FALSE, TRUE)
    ELSE IF StartsWith(part, <<"*", "*">>) /\ EndsWith(part, <<"*", "*">>)
    THEN Annotated(SubSeq(part, 2, Len(part) - 1), TRUE, TRUE, FALSE)
    ELSE IF \/ StartsWith(part, <<"*">>) /\ EndsWith(part, <<"*">>)
            \/ StartsWith(part, <<"_">>) /\ EndsWith(part, <<"_">>)
    THEN Annotated(SubSeq(part, 2, Len(part) - 1), FALSE, TRUE, FALSE)
    ELSE Annotated(part, FALSE, FALSE, FALSE)

\* the body of the loop over parts: one span per part
SpanOf(part) ==
    IF StartsWith(part, <<BT>>) /\ EndsWith(part, <<BT>>)
    THEN Annotated(SubSeq(part, 2, Len(part) - 1), FALSE, FALSE, TRUE)
    ELSE IF StartsWith(part, <<"*", "*">>) /\ EndsWith(part, <<"*", "*">>)
    THEN Annotated(SubSeq(part, 3, Len(part) - 2), TRUE, FALSE, FALSE)
    ELSE IF \/ StartsWith(part, <<"*">>) /\ EndsWith(part, <<"*">>)
            \/ StartsWith(part, <<"_">>) /\ EndsWith(part, <<"_">>)
    THEN Annotated(SubSeq(part, 2, Len(part) - 1), FALSE, TRUE, FALSE)
    ELSE Annotated(part, FALSE, FALSE, FALSE)

\* parse_inline_formatting without its "if not rich_text" fallback
parse_inline_no_fallback(text) ==
    LET parts == FindAll(text)
    IN  [k \in 1..Len(parts) |-> SpanOf(parts[k])]

parse_inline_formatting(text) ==
    LET parts     == FindAll(text)
        rich_text == [k \in 1..Len(parts) |-> SpanOf(parts[k])]
    IN  IF rich_text = <<>>
        THEN <<Annotated(text, FALSE, FALSE, FALSE)>>
        ELSE rich_text

(***************************************************************************)
(* markdown_to_blocks (notion_client.py)                                   *)
(***************************************************************************)
Fence == <<BT, BT, BT>>

PlainText == <<"p", "l", "a", "i", "n", " ", "t", "e", "x", "t">>

valid_langs ==
    { <<"j", "a", "v", "a", "s", "c", "r", "i", "p", "t">>,
      <<"p", "y", "t", "h", "o", "n">>,
      <<"j", "s", "o", "n">>,
      <<"b", "a", "s", "h">>,
      <<"s", "q", "l">>,
      <<"t", "y", "p", "e", "s", "c", "r", "i", "p", "t">>,
      <<"h", "t", "m", "l">>,
      <<"c", "s", "s">>,
      <<"g", "o">>,
      <<"r", "u", "b", "y">>,
      <<"j", "a", "v", "a">> }

\* the pattern with \d in place of \d+: a prefix of one digit only
NumberedPrefixOneDigit(line) ==
    IF Len(line) >= 3 /\ IsDigit(line[1]) /\ line[2] = "." /\ IsSpace(line[3])
    THEN 3
    ELSE 0

\* length of the prefix matched by ^\d+\.\s, 0 when the line does not match
NumberedPrefix(line) ==
    LET nondigit == {k \in 1..Len(line) : ~IsDigit(line[k])}
        d        == IF nondigit = {} THEN Len(line) ELSE Min(nondigit) - 1
    IN  IF d >= 1 /\ d + 2 <= Len(line) /\ line[d + 1] = "." /\ IsSpace(line[d + 2])
        THEN d + 2
        ELSE 0

\* Rule with the bullet test moved before the checkbox test
RuleBulletFirst(line) ==
    IF Strip(line) = <<>> THEN "blank"
    ELSE IF StartsWith(line, <<"#", " ">>) THEN "h1"
    ELSE IF StartsWith(line, <<"#", "#", " ">>) THEN "h2"
    ELSE IF StartsWith(line, <<"#", "#", "#", " ">>) THEN "h3"
    ELSE IF StartsWith(line, <<"#", "#", "#", "#", " ">>) THEN "h4"
    ELSE IF Strip(line) = <<"-", "-", "-">> THEN "divider"
    ELSE IF StartsWith(line, <<">", " ">>) THEN "quote"
    ELSE IF \/ StartsWith(line, <<"-", " ">>)
            \/ StartsWith(line, <<"*", " ">>) THEN "bullet"
    ELSE IF \/ StartsWith(line, <<"-", " ", "[", " ", "]", " ">>)
            \/ StartsWith(line, <<"-", " ", "[", "x", "]", " ">>) THEN "to_do"
    ELSE IF NumberedPrefix(line) # 0 THEN "numbered"
    ELSE IF StartsWith(line, <<"|">>) THEN "table"
    ELSE IF StartsWith(line, Fence) THEN "fence"
    ELSE "paragraph"

\* Rule with the divider test weakened to a prefix test
RuleDividerPrefix(line) ==
    IF Strip(line) = <<>> THEN "blank"
    ELSE IF StartsWith(line, <<"#", " ">>) THEN "h1"
    ELSE IF StartsWith(line, <<"#", "#", " ">>) THEN "h2"
    ELSE IF StartsWith(line, <<"#", "#", "#", " ">>) THEN "h3"
    ELSE IF StartsWith(line, <<"#", "#", "#", "#", " ">>) THEN "h4"
    ELSE IF StartsWith(Strip(line), <<"-", "-", "-">>) THEN "divider"
    ELSE IF StartsWith(line, <<">", " ">>) THEN "quote"
    ELSE IF \/ StartsWith(line, <<"-", " ", "[", " ", "]", " ">>)
            \/ StartsWith(line, <<"-", " ", "[", "x", "]", " ">>) THEN "to_do"
    ELSE IF \/ StartsWith(line, <<"-", " ">>)
            \/ StartsWith(line, <<"*", " ">>) THEN "bullet"
    ELSE IF NumberedPrefix(line) # 0 THEN "numbered"
    ELSE IF StartsWith(line, <<"|">>) THEN "table"
    ELSE IF StartsWith(line, Fence) THEN "fence"
    ELSE "paragraph"

\* Rule without the H1 test
RuleNoH1(line) ==
    IF Strip(line) = <<>> THEN "blank"
    ELSE IF StartsWith(line, <<"#", "#", " ">>) THEN "h2"
    ELSE IF StartsWith(line, <<"#", "#", "#", " ">>) THEN "h3"
    ELSE IF StartsWith(line, <<"#", "#", "#", "#", " ">>) THEN "h4"
    ELSE IF Strip(line) = <<"-", "-", "-">> THEN "divider"
    ELSE IF StartsWith(line, <<">", " ">>) THEN "quote"
    ELSE IF \/ StartsWith(line, <<"-", " ", "[", " ", "]", " ">>)
            \/ StartsWith(line, <<"-", " ", "[", "x", "]", " ">>) THEN "to_do"
    ELSE IF \/ StartsWith(line, <<"-", " ">>)
            \/ StartsWith(line, <<"*", " ">>) THEN "bullet"
    ELSE IF NumberedPrefix(line) # 0 THEN "numbered"
    ELSE IF StartsWith(line, <<"|">>) THEN "table"
    ELSE IF StartsWith(line, Fence) THEN "fence"
    ELSE "paragraph"

\* the if-chain of the loop body: the first rule whose test the line passes
Rule(line) ==
    IF Strip(line) = <<>> THEN "blank"
    ELSE IF StartsWith(line, <<"#", " ">>) THEN "h1"
    ELSE IF StartsWith(line, <<"#", "#", " ">>) THEN "h2"
    ELSE IF StartsWith(line, <<"#", "#", "#", " ">>) THEN "h3"
    ELSE IF StartsWith(line, <<"#", "#", "#", "#", " ">>) THEN "h4"
    ELSE IF Strip(line) = <<"-", "-", "-">> THEN "divider"
    ELSE IF StartsWith(line, <<">", " ">>) THEN "quote"
    ELSE IF \/ StartsWith(line, <<"-", " ", "[", " ", "]", " ">>)
            \/ StartsWith(line, <<"-", " ", "[", "x", "]", " ">>) THEN "to_do"
    ELSE IF \/ StartsWith(line, <<"-", " ">>)
            \/ StartsWith(line, <<"*", " ">>) THEN "bullet"
    ELSE IF NumberedPrefix(line) # 0 THEN "numbered"
    ELSE IF StartsWith(line, <<"|">>) THEN "table"
    ELSE IF StartsWith(line, Fence) THEN "fence"
    ELSE "paragraph"

TextBlock(type, text) ==
    [type |-> type, rich_text |-> parse_inline_formatting(text)]

\* a code block: its rich_text is one span without annotations
CodeBlock(body_lines, language) ==
    [type |-> "code",
     rich_text |-> <<[content |-> Truncate(JoinNL(body_lines))]>>,
     language |-> language]

\* the table rule without its while loop: only the first line is taken
TableEndOneLine(ls, k) == k + 1

\* while i < len(lines) and lines[i].startswith('|'): i += 1
RECURSIVE TableEnd(_, _)
TableEnd(ls, k) ==
    IF k < Len(ls) /\ StartsWith(ls[k + 1], <<"|">>)
    THEN TableEnd(ls, k + 1)
    ELSE k

\* the test that ends a code run at lines[k]
ClosesFence(line) == StartsWith(line, Fence)

\* the loop of the code run stopping at a blank line as well
RECURSIVE FenceEndAtBlank(_, _)
FenceEndAtBlank(ls, k) ==
    IF k < Len(ls) /\ ~ClosesFence(ls[k + 1]) /\ Strip(ls[k + 1]) # <<>>
    THEN FenceEndAtBlank(ls, k + 1)
    ELSE k

\* while i < len(lines) and not lines[i].startswith(fence): i += 1
RECURSIVE FenceEnd(_, _)
FenceEnd(ls, k) ==
    IF k < Len(ls) /\ ~ClosesFence(ls[k + 1])
    THEN FenceEnd(ls, k + 1)
    ELSE k

\* Language without the test against valid_langs
LanguageUnchecked(line) ==
    IF Strip(Drop(line, 3)) = <<>> THEN PlainText ELSE Strip(Drop(line, 3))

\* lang = line[3:].strip() or "plain text"; lang if lang in valid_langs else ...
Language(line) ==
    LET lang == IF Strip(Drop(line, 3)) = <<>> THEN PlainText
                ELSE Strip(Drop(line, 3))
    IN  IF lang \in valid_langs THEN lang ELSE PlainText

\* lines[a:b]
Slice(ls, a, b) == IF a >= b THEN <<>> ELSE SubSeq(ls, a + 1, b)

\* NextIndex with the i += 1 of the blank-line rule forgotten
NextIndexBlankStays(ls, k) ==
    LET rule == Rule(ls[k + 1])
    IN  IF rule = "table" THEN TableEnd(ls, k)
        ELSE IF rule = "fence" THEN FenceEnd(ls, k + 1) + 1
        ELSE IF rule = "blank" THEN k
        ELSE k + 1

\* NextIndex with the i += 1 of the divider rule forgotten
NextIndexDividerStays(ls, k) ==
    LET rule == Rule(ls[k + 1])
    IN  IF rule = "table" THEN TableEnd(ls, k)
        ELSE IF rule = "fence" THEN FenceEnd(ls, k + 1) + 1
        ELSE IF rule = "divider" THEN k
        ELSE k + 1

\* the value of i when the iteration that began at lines[k] ends
NextIndex(ls, k) ==
    LET rule == Rule(ls[k + 1])
    IN  IF rule = "table" THEN TableEnd(ls, k)
        ELSE IF rule = "fence" THEN FenceEnd(ls, k + 1) + 1
        ELSE k + 1

\* Payload with the paragraph text left untrimmed
PayloadUntrimmed(line) ==
    LET rule == Rule(line)
    IN  IF rule = "h2" THEN Strip(Drop(line, 3))
        ELSE IF rule = "h3" THEN Strip(Drop(line, 4))
        ELSE IF rule = "h4" THEN Strip(Drop(line, 5))
        ELSE IF rule = "quote" THEN Strip(Drop(line, 2))
        ELSE IF rule = "to_do" THEN Strip(Drop(line, 6))
        ELSE IF rule = "bullet" THEN Strip(Drop(line, 2))
        ELSE IF rule = "numbered" THEN Strip(Drop(line, NumberedPrefix(line)))
        ELSE line

\* the text a single-line rule hands to parse_inline_formatting:
\* line[3:].strip(), line[4:].strip(), ..., line.strip()
Payload(line) ==
    LET rule == Rule(line)
    IN  IF rule = "h2" THEN Strip(Drop(line, 3))
        ELSE IF rule = "h3" THEN Strip(Drop(line, 4))
        ELSE IF rule = "h4" THEN Strip(Drop(line, 5))
        ELSE IF rule = "quote" THEN Strip(Drop(line, 2))
        ELSE IF rule = "to_do" THEN Strip(Drop(line, 6))
        ELSE IF rule = "bullet" THEN Strip(Drop(line, 2))
        ELSE IF rule = "numbered" THEN Strip(Drop(line, NumberedPrefix(line)))
        ELSE Strip(line)

\* the blocks the iteration that began at lines[k] appends
Emitted(ls, k) ==
    LET line == ls[k + 1]
        rule == Rule(line)
    IN  IF rule \in {"blank", "h1"} THEN <<>>
        ELSE IF rule = "h2" THEN <<TextBlock("heading_2", Payload(line))>>
        ELSE IF rule \in {"h3", "h4"} THEN <<TextBlock("heading_3", Payload(line))>>
        ELSE IF rule = "divider" THEN <<[type |-> "divider"]>>
        ELSE IF rule = "quote" THEN <<TextBlock("quote", Payload(line))>>
        ELSE IF rule = "to_do"
        THEN <<[type |-> "to_do",
                rich_text |-> parse_inline_formatting(Payload(line)),
                checked |-> StartsWith(line, <<"-", " ", "[", "x", "]", " ">>)]>>
        ELSE IF rule = "bullet" THEN <<TextBlock("bulleted_list_item", Payload(line))>>
        ELSE IF rule = "numbered" THEN <<TextBlock("numbered_list_item", Payload(line))>>
        ELSE IF rule = "table"
        THEN <<CodeBlock(Slice(ls, k, TableEnd(ls, k)), PlainText)>>
        ELSE IF rule = "fence"
        THEN <<CodeBlock(Slice(ls, k + 1, FenceEnd(ls, k + 1)), Language(line))>>
        ELSE IF Payload(line) # <<>> THEN <<TextBlock("paragraph", Payload(line))>>
        ELSE <<>>

(***************************************************************************)
(* Input documents                                                         *)
(***************************************************************************)
Long(c, n) == [k \in 1..n |-> c]

FlatPool ==
    { <<>>,
      <<"#", " ", "T">>,
      <<"#", "#", " ", "*">>,
      <<"#", "#", "#", " ", "a">>,
      <<"#", "#", "#", "#", " ", "D">>,
      <<"#", "#", "#", "#", "#", " ", "D">>,
      <<"-", "-", "-">>,
      <<"-", "-", "-", "-">>,
      <<">", " ", "q">>,
      <<"-", " ", "[", "x", "]", " ", "a">>,
      <<"-", " ", "[", " ", "]", " ">>,
      <<"-", " ", "b">>,
      <<"*", " ", "*", "*", "b", "*", "*">>,
      <<"1", ".", " ", "f">>,
      <<"1", "2", ".", " ", "3", " ", "g">>,
      <<"1", ".", "x">>,
      <<" ", "-", "-", "-", " ">>,
      <<"-", "-", " ", "-">>,
      <<" ", "x", BT, "c", BT, " ">> }

RunPool ==
    { <<>>,
      <<"|", "a">>,
      <<"|", "b">>,
      Fence,
      Fence \o <<" ", "p", "y", "t", "h", "o", "n">>,
      Fence \o <<"f", "o", "o">>,
      <<"x">>,
      <<"#", " ", "T">>,
      <<"-", "-", "-">>,
      <<"-", " ", "[", "x", "]", " ", "a">> }

LongPool ==
    { Fence,
      Long("a", MaxContent + 1),
      <<"|">> \o Long("a", MaxContent),
      <<"*", "*">> \o Long("a", MaxContent + 1) \o <<"*", "*">>,
      Long("_", MaxContent + 1) }

\* the non-empty sequences of at most n lines of a pool
LinesUpTo(pool, n) == UNION {[1..m -> pool] : m \in 1..n}

Docs ==
    LinesUpTo(FlatPool, MaxFlatLines) \cup LinesUpTo(RunPool, MaxRunLines)
        \cup LinesUpTo(LongPool, MaxLongLines)

(***************************************************************************)
(* The line scan of markdown_to_blocks as a state machine                  *)
(***************************************************************************)
\* the documents markdown_to_blocks is called with
Markdowns == {JoinNL(d) : d \in Docs}

Init ==
    /\ markdown = <<>>
    /\ lines = <<>>
    /\ i = 0
    /\ blocks = <<>>
    /\ src = <<>>
    /\ pc = "start"
    /\ caller = "convert"
    /\ requests = <<>>
    /\ NoClientCall

\* the call with its argument: blocks = []; lines = markdown.split('\n'); i = 0
Start ==
    /\ pc = "start"
    /\ \E md \in Markdowns :
          /\ markdown' = md
          /\ lines' = Split(md)
    /\ i' = 0
    /\ blocks' = <<>>
    /\ src' = <<>>
    /\ pc' = "scan"
    /\ UNCHANGED <<caller, requests, client>>

\* one iteration of while i < len(lines); src records, for each block, the
\* lines the iteration consumed (from..to) and the text that was parsed
Step ==
    /\ pc = "scan"
    /\ i < Len(lines)
    /\ blocks' = blocks \o Emitted(lines, i)
    /\ src' = src \o [k \in 1..Len(Emitted(lines, i)) |->
                        [from |-> i, to |-> NextIndex(lines, i) - 1,
                         text |-> Payload(lines[i + 1])]]
    /\ i' = NextIndex(lines, i)
    /\ UNCHANGED <<markdown, lines, pc, caller, requests, client>>

\* return blocks
Return ==
    /\ pc = "scan"
    /\ i >= Len(lines)
    /\ pc' = "done"
    /\ UNCHANGED <<markdown, lines, i, blocks, src, caller, requests, client>>

Next == Start \/ Step \/ Return

Spec == Init /\ [][Next]_vars

(***************************************************************************)
(* markdown_to_notion_blocks (sync-problem-to-notion.py): the copy of the  *)
(* converter.  It tests the bullet rule before the checkbox rule, has no   *)
(* numbered-list rule and a shorter language list.                         *)
(***************************************************************************)
sync_valid_langs ==
    { <<"j", "a", "v", "a", "s", "c", "r", "i", "p", "t">>,
      <<"p", "y", "t", "h", "o", "n">>,
      <<"j", "s", "o", "n">>,
      <<"b", "a", "s", "h">>,
      <<"s", "q", "l">>,
      <<"t", "y", "p", "e", "s", "c", "r", "i", "p", "t">>,
      <<"h", "t", "m", "l">>,
      <<"c", "s", "s">> }

sync_Rule(line) ==
    IF Strip(line) = <<>> THEN "blank"
    ELSE IF StartsWith(line, <<"#", " ">>) THEN "h1"
    ELSE IF StartsWith(line, <<"#", "#", " ">>) THEN "h2"
    ELSE IF StartsWith(line, <<"#", "#", "#", " ">>) THEN "h3"
    ELSE IF StartsWith(line, <<"#", "#", "#", "#", " ">>) THEN "h4"
    ELSE IF Strip(line) = <<"-", "-", "-">> THEN "divider"
    ELSE IF StartsWith(line, <<">", " ">>) THEN "quote"
    ELSE IF \/ StartsWith(line, <<"-", " ">>)
            \/ StartsWith(line, <<"*", " ">>) THEN "bullet"
    ELSE IF \/ StartsWith(line, <<"-", " ", "[", " ", "]", " ">>)
            \/ StartsWith(line, <<"-", " ", "[", "x", "]", " ">>) THEN "to_do"
    ELSE IF StartsWith(line, <<"|">>) THEN "table"
    ELSE IF StartsWith(line, Fence) THEN "fence"
    ELSE "paragraph"

sync_Language(line) ==
    LET lang == IF Strip(Drop(line, 3)) = <<>> THEN PlainText
                ELSE Strip(Drop(line, 3))
    IN  IF lang \in sync_valid_langs THEN lang ELSE PlainText

sync_NextIndex(ls, k) ==
    LET rule == sync_Rule(ls[k + 1])
    IN  IF rule = "table" THEN TableEnd(ls, k)
        ELSE IF rule = "fence" THEN FenceEnd(ls, k + 1) + 1
        ELSE k + 1

\* the text a single-line rule of the copy hands to parse_inline_formatting
sync_Payload(line) ==
    LET rule == sync_Rule(line)
    IN  IF rule = "h2" THEN Strip(Drop(line, 3))
        ELSE IF rule = "h3" THEN Strip(Drop(line, 4))
        ELSE IF rule = "h4" THEN Strip(Drop(line, 5))
        ELSE IF rule = "quote" THEN Strip(Drop(line, 2))
        ELSE IF rule = "bullet" THEN Strip(Drop(line, 2))
        ELSE IF rule = "to_do" THEN Strip(Drop(line, 6))
        ELSE Strip(line)

sync_Emitted(ls, k) ==
    LET line == ls[k + 1]
        rule == sync_Rule(line)
    IN  IF rule \in {"blank", "h1"} THEN <<>>
        ELSE IF rule = "h2" THEN <<TextBlock("heading_2", sync_Payload(line))>>
        ELSE IF rule \in {"h3", "h4"} THEN <<TextBlock("heading_3", sync_Payload(line))>>
        ELSE IF rule = "divider" THEN <<[type |-> "divider"]>>
        ELSE IF rule = "quote" THEN <<TextBlock("quote", sync_Payload(line))>>
        ELSE IF rule = "bullet"
        THEN \* checkbox items are skipped here, and the iteration ends
             IF ~(\/ StartsWith(sync_Payload(line), <<"[", " ", "]">>)
                  \/ StartsWith(sync_Payload(line), <<"[", "x", "]">>))
             THEN <<TextBlock("bulleted_list_item", sync_Payload(line))>>
             ELSE <<>>
        ELSE IF rule = "to_do"
        THEN <<[type |-> "to_do",
                rich_text |-> parse_inline_formatting(sync_Payload(line)),
                checked |-> StartsWith(line, <<"-", " ", "[", "x", "]", " ">>)]>>
        ELSE IF rule = "table"
        THEN <<CodeBlock(Slice(ls, k, TableEnd(ls, k)), PlainText)>>
        ELSE IF rule = "fence"
        THEN <<CodeBlock(Slice(ls, k + 1, FenceEnd(ls, k + 1)), sync_Language(line))>>
        ELSE IF sync_Payload(line) # <<>> THEN <<TextBlock("paragraph", sync_Payload(line))>>
        ELSE <<>>

\* one iteration of the while loop of markdown_to_notion_blocks
SyncStep ==
    /\ pc = "scan"
    /\ i < Len(lines)
    /\ blocks' = blocks \o sync_Emitted(lines, i)
    /\ src' = src \o [k \in 1..Len(sync_Emitted(lines, i)) |->
                        [from |-> i, to |-> sync_NextIndex(lines, i) - 1,
                         text |-> sync_Payload(lines[i + 1])]]
    /\ i' = sync_NextIndex(lines, i)
    /\ UNCHANGED <<markdown, lines, pc, caller, requests, client>>

NextSync == Start \/ SyncStep \/ Return

SpecSync == Init /\ [][NextSync]_vars

(***************************************************************************)
(* Two calls of markdown_to_blocks, one after the other, on the same       *)
(* string: the caller keeps what the first call returned in result.        *)
(***************************************************************************)
\* the entry of the function with a list that outlives the call: blocks is
\* not set to [] again
CallKeepsBlocks(md) ==
    /\ markdown' = md
    /\ lines' = Split(md)
    /\ i' = 0
    /\ blocks' = blocks
    /\ src' = src
    /\ pc' = "scan"

\* the entry of the function: blocks = []; lines = markdown.split('\n'); i = 0
Call(md) ==
    /\ markdown' = md
    /\ lines' = Split(md)
    /\ i' = 0
    /\ blocks' = <<>>
    /\ src' = <<>>
    /\ pc' = "scan"

FirstCall ==
    /\ pc = "start"
    /\ \E md \in Markdowns : Call(md)
    /\ UNCHANGED <<caller, requests, client>>

\* the caller keeps the returned list and calls again with the same string
SecondCall ==
    /\ pc = "done"
    /\ result = <<>>
    /\ result' = <<blocks>>
    /\ Call(markdown)
    /\ UNCHANGED <<caller, requests, args, existing, has_more, remote>>

NextTwice == FirstCall \/ Step \/ Return \/ SecondCall

SpecTwice == Init /\ [][NextTwice]_vars

(***************************************************************************)
(* The two converters on the same string: markdown_to_blocks first, its    *)
(* list kept in result, then markdown_to_notion_blocks (caller "sync").    *)
(***************************************************************************)
\* the call of the copy with the string the original was called with
SyncCall ==
    /\ pc = "done"
    /\ caller = "convert"
    /\ result = <<>>
    /\ result' = <<blocks>>
    /\ caller' = "sync"
    /\ Call(markdown)
    /\ UNCHANGED <<requests, args, existing, has_more, remote>>

\* an iteration of the while loop of the converter that is running
BothStep ==
    \/ caller = "convert" /\ Step
    \/ caller = "sync" /\ SyncStep

NextBoth == FirstCall \/ BothStep \/ Return \/ SyncCall

SpecBoth == Init /\ [][NextBoth]_vars

(***************************************************************************)
(* create_page (notion_client.py, create-page.py) and create_notion_page   *)
(* (sync-problem-to-notion.py): the create request and the append loop.    *)
(* A block is an abstract value here (its index in the input, from 1), and *)
(* every notion_request either returns or raises.                          *)
(***************************************************************************)
\* the absent block list (blocks=None, no body): a value no block list equals
None == <<0>>

Callers == {"create_page", "create-page.py", "create_notion_page"}

\* the block lists a caller can hold: create_page takes None or a list,
\* create-page.py has none without a body, create_notion_page always a list
BlockLists(c) ==
    {[k \in 1..n |-> k] : n \in 0..MaxBlocks}
        \cup (IF c = "create_notion_page" THEN {} ELSE {None})

\* whether the create request carries a "children" key
HasChildren(c, bs) ==
    IF c = "create_page" THEN bs # None /\ bs # <<>>
    ELSE IF c = "create-page.py" THEN bs # None
    ELSE TRUE

\* a batch of 101: blocks[a:a+101]
BatchOverlong(bs, a) ==
    Slice(bs, a, IF a + BatchSize + 1 < Len(bs) THEN a + BatchSize + 1 ELSE Len(bs))

\* blocks[a:a+100]
Batch(bs, a) == Slice(bs, a, IF a + BatchSize < Len(bs) THEN a + BatchSize ELSE Len(bs))

InitPage ==
    /\ markdown = <<>>
    /\ lines = <<>>
    /\ src = <<>>
    /\ caller \in Callers
    /\ blocks \in BlockLists(caller)
    /\ i = 0
    /\ pc = "create"
    /\ requests = <<>>
    /\ NoClientCall

\* result = notion_request("POST", "/pages", token, page_data)
CreateRequest ==
    /\ pc = "create"
    /\ requests' = Append(requests,
            IF HasChildren(caller, blocks)
            THEN [method |-> "POST", endpoint |-> "pages", children |-> Batch(blocks, 0)]
            ELSE [method |-> "POST", endpoint |-> "pages"])
    /\ \E ok \in BOOLEAN :
          pc' = IF ~ok THEN "raised"
                ELSE IF blocks # None /\ Len(blocks) > BatchSize THEN "append"
                ELSE "return"
    /\ i' = BatchSize
    /\ UNCHANGED <<markdown, lines, blocks, src, caller, client>>

\* for i in range(100, len(blocks), 100): notion_request("PATCH", ...)
AppendRequest ==
    /\ pc = "append"
    /\ i < Len(blocks)
    /\ requests' = Append(requests,
            [method |-> "PATCH", endpoint |-> "children", children |-> Batch(blocks, i)])
    /\ \E ok \in BOOLEAN : pc' = IF ok THEN "append" ELSE "raised"
    /\ i' = i + BatchSize
    /\ UNCHANGED <<markdown, lines, blocks, src, caller, client>>

\* return result
CreateReturn ==
    /\ pc \in {"append", "return"}
    /\ pc = "append" => i >= Len(blocks)
    /\ pc' = "done"
    /\ UNCHANGED <<markdown, lines, i, blocks, src, caller, requests, client>>

NextPage == CreateRequest \/ AppendRequest \/ CreateReturn

SpecPage == InitPage /\ [][NextPage]_vars

(***************************************************************************)
(* parse_inline_formatting as a state machine: the call, the loop over the *)
(* parts of re.findall (one span per part) and the fallback at the return. *)
(* markdown holds the text, lines the parts, blocks the rich_text list and *)
(* src, for each part, the positions from..to of its match in the text.    *)
(***************************************************************************)
\* the matches of the pattern in t from position p on, as positions
RECURSIVE MatchesFrom(_, _)
MatchesFrom(t, p) ==
    LET q == NextMatch(t, p)
    IN  IF q = 0 THEN <<>>
        ELSE <<[from |-> q, to |-> MatchEnd(t, q)]>> \o MatchesFrom(t, MatchEnd(t, q) + 1)

Alphabet == {"a", "*", "_", BT}

\* "Hello **bold** and `code` and *italic*"
Example ==
    <<"H", "e", "l", "l", "o", " ", "*", "*", "b", "o", "l", "d", "*", "*",
      " ", "a", "n", "d", " ", BT, "c", "o", "d", "e", BT,
      " ", "a", "n", "d", " ", "*", "i", "t", "a", "l", "i", "c", "*">>

\* the texts parse_inline_formatting is called with
Texts ==
    UNION {[1..n -> Alphabet] : n \in 0..MaxTextLen}
        \cup {Example,
              <<"*", "*">> \o Long("a", MaxContent + 1) \o <<"*", "*">>,
              <<"a", " ", "*", " ", "b">>}

InitParse ==
    /\ markdown = <<>>
    /\ lines = <<>>
    /\ i = 0
    /\ blocks = <<>>
    /\ src = <<>>
    /\ pc = "start"
    /\ caller = "parse"
    /\ requests = <<>>
    /\ NoClientCall

\* rich_text = []; parts = re.findall(pattern, text)
ParseCall ==
    /\ pc = "start"
    /\ \E text \in Texts :
          /\ markdown' = text
          /\ lines' = FindAll(text)
          /\ src' = MatchesFrom(text, 1)
    /\ i' = 0
    /\ blocks' = <<>>
    /\ pc' = "parts"
    /\ UNCHANGED <<caller, requests, client>>

\* one iteration of for part in parts
ParsePart ==
    /\ pc = "parts"
    /\ i < Len(lines)
    /\ blocks' = Append(blocks, SpanOf(lines[i + 1]))
    /\ i' = i + 1
    /\ UNCHANGED <<markdown, lines, src, pc, caller, requests, client>>

\* if not rich_text: rich_text.append(...); return rich_text
ParseReturn ==
    /\ pc = "parts"
    /\ i >= Len(lines)
    /\ blocks' = IF blocks = <<>>
                 THEN <<Annotated(markdown, FALSE, FALSE, FALSE)>>
                 ELSE blocks
    /\ pc' = "done"
    /\ UNCHANGED <<markdown, lines, i, src, caller, requests, client>>

NextParse == ParseCall \/ ParsePart \/ ParseReturn

SpecParse == InitParse /\ [][NextParse]_vars

\* the loop and the operator compute the same list
ParseAgrees == pc = "done" => blocks = parse_inline_formatting(markdown)

(***************************************************************************)
(* update_page and search_in_database (notion_client.py), each request     *)
(* going through notion_request.  The remote is outside the program: a     *)
(* request succeeds or fails, and a listing answers with any blocks (here  *)
(* numbered from 1) and any has_more.  requests logs every request with    *)
(* its outcome; args holds properties and replace_blocks as truth values.  *)
(***************************************************************************)
\* urlopen returns, raises HTTPError (re-raised as RuntimeError, line 78) or
\* raises URLError (not caught by notion_request)
Outcomes == {"ok", "HTTPError", "URLError"}

\* what notion_request raises for an outcome that is not "ok"
Raised(o) == [raised |-> IF o = "HTTPError" THEN "RuntimeError" ELSE "URLError"]

\* result = None, and the None search_in_database returns
NoResult == [none |-> TRUE]

ClientOps == {"update_page", "search_in_database"}

\* the block lists update_page is called with: None, or a list whose length
\* is at or just past a multiple of 100
UpdateBlockLists ==
    {None} \cup {[k \in 1..n |-> k] : n \in {m \in 0..MaxBlocks : m % BatchSize <= 1}}

\* the number of listings requested so far
Rounds == Cardinality({k \in 1..Len(requests) : requests[k].method = "GET"})

Logged(method, endpoint, target, o) ==
    Append(requests, [method |-> method, endpoint |-> endpoint,
                      target |-> target, outcome |-> o])

InitClient ==
    /\ markdown = <<>>
    /\ lines = <<>>
    /\ src = <<>>
    /\ i = 0
    /\ requests = <<>>
    /\ caller \in ClientOps
    /\ args \in (IF caller = "update_page"
                 THEN [properties : BOOLEAN, replace_blocks : BOOLEAN]
                 ELSE {<<>>})
    /\ blocks \in (IF caller = "update_page" THEN UpdateBlockLists ELSE {None})
    /\ existing = <<>>
    /\ has_more = TRUE
    /\ result = NoResult
    /\ remote = <<>>
    /\ pc = IF caller = "update_page" THEN "properties" ELSE "search"

\* where update_page goes after the properties: if blocks: if replace_blocks:
AfterProperties ==
    IF blocks # None /\ blocks # <<>>
    THEN (IF args.replace_blocks THEN "list" ELSE "batches")
    ELSE "return"

\* if properties: result = notion_request("PATCH", f"/pages/{page_id}", ...)
UpdateProperties ==
    /\ pc = "properties"
    /\ args.properties
    /\ \E o \in Outcomes :
          /\ requests' = Logged("PATCH", "pages", 0, o)
          /\ result' = IF o = "ok" THEN [id |-> "page"] ELSE Raised(o)
          /\ pc' = IF o = "ok" THEN AfterProperties ELSE "raised"
    /\ UNCHANGED <<markdown, lines, i, blocks, src, caller, args, existing, has_more, remote>>

\* properties is None or empty: no request
SkipProperties ==
    /\ pc = "properties"
    /\ ~args.properties
    /\ pc' = AfterProperties
    /\ UNCHANGED <<markdown, lines, i, blocks, src, caller, requests, client>>

\* while has_more: existing = notion_request("GET", ".../children?page_size=100")
ListChildren ==
    /\ pc = "list"
    /\ has_more
    /\ \E o \in Outcomes :
          /\ requests' = Logged("GET", "children", 0, o)
          /\ IF o = "ok"
             THEN /\ \E n \in 0..MaxResults, more \in BOOLEAN :
                        /\ Rounds + 1 >= MaxRounds => ~more
                        /\ existing' = [results |-> [k \in 1..n |-> k], has_more |-> more]
                  /\ pc' = "delete"
                  /\ result' = result
             ELSE /\ existing' = existing
                  /\ pc' = "raised"
                  /\ result' = Raised(o)
    /\ i' = 0
    /\ UNCHANGED <<markdown, lines, blocks, src, caller, args, has_more, remote>>

\* for block in existing.get("results", []):
\*     try: notion_request("DELETE", ...)  except: pass
DeleteBlock ==
    /\ pc = "delete"
    /\ i < Len(existing.results)
    /\ \E o \in Outcomes :
          requests' = Logged("DELETE", "blocks", existing.results[i + 1], o)
    /\ i' = i + 1
    /\ UNCHANGED <<markdown, lines, blocks, src, pc, caller, client>>

\* has_more = existing.get("has_more", False), and the while test
DeleteLoopEnd ==
    /\ pc = "delete"
    /\ i >= Len(existing.results)
    /\ has_more' = existing.has_more
    /\ pc' = IF existing.has_more THEN "list" ELSE "batches"
    /\ i' = 0
    /\ UNCHANGED <<markdown, lines, blocks, src, caller, requests, args, existing, result, remote>>

\* for i in range(0, len(blocks), 100): notion_request("PATCH", ..., batch)
AppendBatch ==
    /\ pc = "batches"
    /\ i < Len(blocks)
    /\ \E o \in Outcomes :
          /\ requests' = Append(requests,
                 [method |-> "PATCH", endpoint |-> "children", target |-> 0,
                  outcome |-> o, children |-> Batch(blocks, i)])
          /\ pc' = IF o = "ok" THEN "batches" ELSE "raised"
          /\ result' = IF o = "ok" THEN result ELSE Raised(o)
    /\ i' = i + BatchSize
    /\ UNCHANGED <<markdown, lines, blocks, src, caller, args, existing, has_more, remote>>

\* return result or {"id": page_id, "status": "updated"}
UpdateReturn ==
    /\ \/ pc = "return"
       \/ pc = "batches" /\ i >= Len(blocks)
    /\ result' = IF result # NoResult THEN result ELSE [id |-> "page", status |-> "updated"]
    /\ pc' = "done"
    /\ UNCHANGED <<markdown, lines, i, blocks, src, caller, requests, args, existing, has_more, remote>>

\* search_in_database: try: result = notion_request("POST", ".../query", ...)
\* return the first id; except: pass; return None
SearchInDatabase ==
    /\ pc = "search"
    /\ \E o \in Outcomes :
          /\ requests' = Logged("POST", "query", 0, o)
          /\ IF o = "ok"
             THEN \E n \in 0..MaxResults : result' = IF n > 0 THEN [id |-> 1] ELSE NoResult
             ELSE result' = NoResult
    /\ pc' = "done"
    /\ UNCHANGED <<markdown, lines, i, blocks, src, caller, args, existing, has_more, remote>>

NextClient ==
    \/ UpdateProperties \/ SkipProperties \/ ListChildren \/ DeleteBlock
    \/ DeleteLoopEnd \/ AppendBatch \/ UpdateReturn \/ SearchInDatabase

SpecClient == InitClient /\ [][NextClient]_vars

(***************************************************************************)
(* update_page (notion_client.py) and update_notion_page                   *)
(* (sync-problem-to-notion.py) against a remote store that is kept:        *)
(* remote.children are the children of the page, a listing answers with    *)
(* the first PageSize of them and has_more when there are more, a delete   *)
(* removes the block unless the store refuses it (remote.undeletable, a    *)
(* refusal that repeats), an append adds the batch at the end.  The store  *)
(* changes by these requests only.  Old children are numbered -1, -2, ..., *)
(* new blocks 1, 2, ...  remote.pages counts the pages that have the       *)
(* title, remote.children being the children of the first of them (the one *)
(* a search returns) and remote.other those of the page created last       *)
(* beside it.                                                              *)
(* requests logs the requests while remote.logging; without the log a      *)
(* state can repeat, which the termination check needs.                    *)
(***************************************************************************)
UpdateOps == {"update_page", "update_notion_page"}

OldChildren(n) == [k \in 1..n |-> 0 - k]

ChildCounts == (0..MaxExtra) \cup (PageSize..(PageSize + MaxExtra))

\* the blocks the store refuses to delete: none, the first, the first PageSize
Refused(n) == {{0 - k : k \in 1..u} : u \in {v \in {0, 1, PageSize} : v <= n}}

RLogged(method, endpoint, target, o) ==
    IF remote.logging THEN Logged(method, endpoint, target, o) ELSE requests

InitStore(logging, lists) ==
    /\ markdown = <<>>
    /\ lines = <<>>
    /\ src = <<>>
    /\ i = 0
    /\ requests = <<>>
    /\ caller \in UpdateOps
    /\ args \in (IF caller = "update_page"
                 THEN [properties : BOOLEAN, replace_blocks : BOOLEAN]
                 ELSE {[properties |-> TRUE, replace_blocks |-> TRUE]})
    /\ blocks \in (IF caller = "update_page" THEN lists ELSE lists \ {None})
    /\ existing = <<>>
    /\ has_more = TRUE
    /\ result = NoResult
    /\ \E n \in ChildCounts : \E u \in Refused(n) :
          remote = [children |-> OldChildren(n), initial |-> OldChildren(n),
                    undeletable |-> u, logging |-> logging, pages |-> 1,
                    other |-> <<>>]
    /\ pc = "properties"

InitReplace == InitStore(TRUE, UpdateBlockLists)

\* the calls whose block list is None or short
ShortBlockLists == {None} \cup {[k \in 1..n |-> k] : n \in 0..MaxExtra}

InitLoop == InitStore(FALSE, ShortBlockLists)

\* update_page with "if replace_blocks:" tested before "if blocks:"
AfterPatchReplaceFirst ==
    IF caller = "update_notion_page" THEN "list"
    ELSE IF args.replace_blocks THEN "list"
    ELSE IF blocks # None /\ blocks # <<>> THEN "batches"
    ELSE "return"

\* where the function goes after the properties.  update_page: if blocks:
\* if replace_blocks: ...; update_notion_page: always the listing loop
AfterPatch ==
    IF caller = "update_notion_page" THEN "list"
    ELSE IF blocks # None /\ blocks # <<>>
    THEN (IF args.replace_blocks THEN "list" ELSE "batches")
    ELSE "return"

\* result = notion_request("PATCH", f"/pages/{page_id}", token, ...)
PatchPage ==
    /\ pc = "properties"
    /\ args.properties
    /\ \E o \in Outcomes :
          /\ requests' = RLogged("PATCH", "pages", 0, o)
          /\ result' = IF o = "ok" THEN [id |-> "page"] ELSE Raised(o)
          /\ pc' = IF o = "ok" THEN AfterPatch ELSE "raised"
    /\ UNCHANGED <<markdown, lines, i, blocks, src, caller, args, existing, has_more, remote>>

\* update_page with properties None or empty: no request
SkipPatch ==
    /\ pc = "properties"
    /\ ~args.properties
    /\ pc' = AfterPatch
    /\ UNCHANGED <<markdown, lines, i, blocks, src, caller, requests, client>>

\* a listing loop that never asks for a second listing
MoreToFetchNever(e) == FALSE

\* has_more = existing.get("has_more", False)
MoreToFetch(e) == e.has_more

\* while has_more: existing = notion_request("GET", ".../children?page_size=100")
\* A failed listing raises in update_page; in update_notion_page the outer
\* try catches it and the function goes on to the append
FetchChildren ==
    /\ pc = "list"
    /\ has_more
    /\ remote.logging => Rounds < MaxListings
    /\ \E o \in Outcomes :
          /\ requests' = RLogged("GET", "children", 0, o)
          /\ IF o = "ok"
             THEN /\ existing' = [results |-> Take(remote.children, PageSize),
                                  has_more |-> Len(remote.children) > PageSize]
                  /\ pc' = "delete"
                  /\ result' = result
             ELSE /\ existing' = existing
                  /\ pc' = IF caller = "update_page" THEN "raised" ELSE "batches"
                  /\ result' = IF caller = "update_page" THEN Raised(o) ELSE result
    /\ i' = 0
    /\ UNCHANGED <<markdown, lines, blocks, src, caller, args, has_more, remote>>

\* the answer of the store to the DELETE of block b
DeleteOutcome(b) == IF b \in remote.undeletable THEN "HTTPError" ELSE "ok"

\* the children once the listed blocks the store lets go are deleted
Without(seq, listed) ==
    SelectSeq(seq, LAMBDA y : ~(\E k \in 1..Len(listed) :
                                    listed[k] = y /\ DeleteOutcome(y) = "ok"))

\* for block in existing.get("results", []):
\*     try: notion_request("DELETE", f"/blocks/{block['id']}", token)
\*     except: pass
\* the whole for loop: one DELETE per listed block, in the order listed
DeleteListed ==
    /\ pc = "delete"
    /\ i < Len(existing.results)
    /\ requests' =
          IF remote.logging
          THEN requests \o
               [k \in 1..Len(existing.results) |->
                   [method |-> "DELETE", endpoint |-> "blocks",
                    target |-> existing.results[k],
                    outcome |-> DeleteOutcome(existing.results[k])]]
          ELSE requests
    /\ remote' = [remote EXCEPT !.children = Without(@, existing.results)]
    /\ i' = Len(existing.results)
    /\ UNCHANGED <<markdown, lines, blocks, src, pc, caller, args, existing, has_more, result>>

\* the for loop is over: has_more is set, and the while test is made again
FetchLoopEnd ==
    /\ pc = "delete"
    /\ i >= Len(existing.results)
    /\ has_more' = MoreToFetch(existing)
    /\ pc' = IF MoreToFetch(existing) THEN "list" ELSE "batches"
    /\ i' = 0
    /\ UNCHANGED <<markdown, lines, blocks, src, caller, requests, args, existing, result, remote>>

\* whether page_id is a page created beside the one the store already had
AppendsToOther == caller = "create_notion_page" /\ remote.pages > 1

\* for i in range(0, len(blocks), 100):
\*     notion_request("PATCH", f"/blocks/{page_id}/children", ..., batch)
AppendChildren ==
    /\ pc = "batches"
    /\ i < Len(blocks)
    /\ \E o \in Outcomes :
          /\ requests' =
                IF remote.logging
                THEN Append(requests,
                        [method |-> "PATCH", endpoint |-> "children", target |-> 0,
                         outcome |-> o, children |-> Batch(blocks, i)])
                ELSE requests
          /\ remote' = IF o # "ok" THEN remote
                       ELSE IF AppendsToOther
                       THEN [remote EXCEPT !.other = @ \o Batch(blocks, i)]
                       ELSE [remote EXCEPT !.children = @ \o Batch(blocks, i)]
          /\ pc' = IF o = "ok" THEN "batches" ELSE "raised"
          /\ result' = IF o = "ok" THEN result ELSE Raised(o)
    /\ i' = i + BatchSize
    /\ UNCHANGED <<markdown, lines, blocks, src, caller, args, existing, has_more>>

\* update_page: return result or {"id": page_id, "status": "updated"}
\* update_notion_page: return result
ReturnUpdated ==
    /\ \/ pc = "return"
       \/ pc = "batches" /\ i >= Len(blocks)
    /\ result' = IF result # NoResult THEN result ELSE [id |-> "page", status |-> "updated"]
    /\ pc' = "done"
    /\ UNCHANGED <<markdown, lines, i, blocks, src, caller, requests, args, existing, has_more, remote>>

NextReplace ==
    \/ PatchPage \/ SkipPatch \/ FetchChildren \/ DeleteListed
    \/ FetchLoopEnd \/ AppendChildren \/ ReturnUpdated

SpecReplace == InitReplace /\ [][NextReplace]_vars

\* the same calls without the log, every step that can be taken being taken
SpecLoop == InitLoop /\ [][NextReplace]_vars /\ WF_vars(NextReplace)

(***************************************************************************)
(* main of sync-problem-to-notion.py, run MaxRuns times on the same file   *)
(* against the kept store: the search for a page with the title, then      *)
(* update_notion_page (the actions above) or create_notion_page.           *)
(***************************************************************************)
\* the number of searches made so far, one per run
Runs == Cardinality({k \in 1..Len(requests) : requests[k].endpoint = "query"})

InitMain ==
    /\ markdown = <<>>
    /\ lines = <<>>
    /\ src = <<>>
    /\ i = 0
    /\ requests = <<>>
    /\ caller = "main"
    /\ args = [properties |-> TRUE, replace_blocks |-> TRUE]
    /\ blocks \in UpdateBlockLists \ {None}
    /\ existing = <<>>
    /\ has_more = TRUE
    /\ result = NoResult
    /\ \E p \in 0..1 : \E n \in (IF p = 0 THEN {0} ELSE ChildCounts) :
       \E u \in Refused(n) :
          remote = [children |-> OldChildren(n), initial |-> OldChildren(n),
                    undeletable |-> u, logging |-> TRUE, pages |-> p,
                    other |-> <<>>]
    /\ pc = "search"

\* search_existing_page: the id of the first result of an answered query;
\* None when there is no result and, the exception being caught, when the
\* query failed
Found(o) == o = "ok" /\ remote.pages > 0

\* existing_page_id = search_existing_page(token, data["title"])
\* if existing_page_id: update_notion_page(...) else: create_notion_page(...)
MainSearch ==
    /\ pc = "search"
    /\ \E o \in Outcomes :
          /\ requests' = Append(requests,
                [method |-> "POST", endpoint |-> "query", target |-> 0,
                 outcome |-> o])
          /\ caller' = IF Found(o) THEN "update_notion_page" ELSE "create_notion_page"
          /\ pc' = IF Found(o) THEN "properties" ELSE "create_page"
    /\ remote' = [remote EXCEPT !.initial = remote.children]
    /\ UNCHANGED <<markdown, lines, i, blocks, src, args, existing, has_more, result>>

\* create_notion_page: result = notion_request("POST", "/pages", ...) with
\* "children": blocks[:100]; if len(blocks) > 100: the append loop from 100
MainCreatePage ==
    /\ pc = "create_page"
    /\ \E o \in Outcomes :
          /\ requests' = Append(requests,
                [method |-> "POST", endpoint |-> "pages", target |-> 0,
                 outcome |-> o, children |-> Batch(blocks, 0),
                 pages |-> remote.pages])
          /\ remote' = IF o # "ok" THEN remote
                       ELSE IF remote.pages > 0
                       THEN [remote EXCEPT !.pages = @ + 1,
                                           !.other = Batch(blocks, 0)]
                       ELSE [remote EXCEPT !.pages = @ + 1,
                                           !.children = Batch(blocks, 0)]
          /\ result' = IF o = "ok" THEN [id |-> "page"] ELSE Raised(o)
          /\ pc' = IF o # "ok" THEN "raised"
                   ELSE IF Len(blocks) > BatchSize THEN "batches"
                   ELSE "return"
    /\ i' = BatchSize
    /\ UNCHANGED <<markdown, lines, blocks, src, caller, args, existing, has_more>>

\* the next run of the script on the same file
MainAgain ==
    /\ pc \in {"done", "raised"}
    /\ caller \in {"update_notion_page", "create_notion_page"}
    /\ Runs < MaxRuns
    /\ caller' = "main"
    /\ pc' = "search"
    /\ i' = 0
    /\ existing' = <<>>
    /\ has_more' = TRUE
    /\ result' = NoResult
    /\ UNCHANGED <<markdown, lines, blocks, src, requests, args, remote>>

NextMain ==
    \/ MainSearch \/ MainCreatePage \/ MainAgain
    \/ PatchPage \/ FetchChildren \/ DeleteListed
    \/ FetchLoopEnd \/ AppendChildren \/ ReturnUpdated

SpecMain == InitMain /\ [][NextMain]_vars

(***************************************************************************)
(* The record scripts create-ticket.py, create-task.py and                 *)
(* create-document.py: main (file data overridden by the command line, or  *)
(* data built from the command line) and create_ticket, create_task,       *)
(* create_document (the properties sent).  caller is the script, markdown  *)
(* the data parse_markdown_file finds in the file (a dict, here a function *)
(* from keys to values), args the command line (given: the options the     *)
(* user wrote, ns: the namespace argparse makes of them), existing the     *)
(* dict data of main, result the arguments and properties of the create    *)
(* call.  A value is a string; NoValue is Python's None.                   *)
(***************************************************************************)
Scripts == {"create-ticket.py", "create-task.py", "create-document.py"}

NoValue == "<None>"

\* what "if v:" tests
Truthy(v) == v # NoValue /\ v # ""

TICKET_PRIORITY == {"Low", "Medium", "High"}

TICKET_STAGE ==
    {"Not started", "Problem Validation", "Product Design / Work", "UI Design",
     "Ready for dev", "Eng Design", "In Development", "QA", "Code Review",
     "Deployed / Done", "Blocked", "Backlog"}

TICKET_TYPE ==
    {"Bug", "Feature", "Issue", "Insight", "Request", "Enterprise", "Product", "Module"}

TICKET_TEAM ==
    {"Pocketflows", "Prod", "Eng", "Ensemble", "Layer", "Leadership", "Support"}

TASK_STATUS == {"Not Started", "In Progress", "Completed", "Done", "Archived"}

TASK_PRIORITY == {"Low", "Medium", "High"}

DOC_STATUS == {"Open", "Urgent", "Archived", "Done", "Launched", "Implementation"}

DOC_CATEGORY ==
    {"Category 1", "Outreach", "Project", "Research", "Competitor Analysis",
     "Moovs Training", "Marketing", "ICP", "Process", "Swoop Sales"}

DOC_TEAM ==
    {"Accounting", "Product", "Fundraising", "People", "Moovs Marketing",
     "Swoop Marketplace", "Marketing", "Moovs Sales", "Moovs", "Growth", "Swop Inc"}

DOC_TYPE ==
    {"Bug", "Insight", "Feature", "Issue", "Enterprise", "Product",
     "CRM", "Passenger App", "Request", "Module", "Swoop", "Bookkeeping"}

\* the keys of data in main
Keys(s) ==
    IF s = "create-ticket.py"
    THEN {"name", "summary", "priority", "stage", "type", "team", "due_date",
          "operator_id", "body"}
    ELSE IF s = "create-task.py"
    THEN {"name", "summary", "priority", "status", "due", "body"}
    ELSE {"name", "status", "category", "team", "type", "body"}

\* choices= of the option, {} for an option without choices
Choices(s, k) ==
    IF s = "create-ticket.py"
    THEN (IF k = "priority" THEN TICKET_PRIORITY
          ELSE IF k = "stage" THEN TICKET_STAGE
          ELSE IF k = "type" THEN TICKET_TYPE
          ELSE IF k = "team" THEN TICKET_TEAM
          ELSE {})
    ELSE IF s = "create-task.py"
    THEN (IF k = "priority" THEN TASK_PRIORITY
          ELSE IF k = "status" THEN TASK_STATUS
          ELSE {})
    ELSE (IF k = "status" THEN DOC_STATUS
          ELSE IF k = "category" THEN DOC_CATEGORY
          ELSE IF k = "team" THEN DOC_TEAM
          ELSE IF k = "type" THEN DOC_TYPE
          ELSE {})

\* default= of the option, None without one
Default(s, k) ==
    IF k = "priority" THEN "Medium"
    ELSE IF k = "stage" THEN "Ingestion"
    ELSE IF k = "status" THEN (IF s = "create-task.py" THEN "Not Started" ELSE "Open")
    ELSE NoValue

\* the options an option value is tested against before it is sent:
\* "if priority and priority in TICKET_PRIORITY:"; create_task tests no status
Validated(s, k) ==
    IF s = "create-task.py" THEN k = "priority" ELSE Choices(s, k) # {}

\* the name of the property a key is sent as
PropertyName(s, k) ==
    IF k = "name" THEN (IF s = "create-task.py" THEN "Task Name" ELSE "Name")
    ELSE IF k = "summary" THEN "Summary"
    ELSE IF k = "priority" THEN "Priority"
    ELSE IF k = "stage" THEN "Stage"
    ELSE IF k = "status" THEN "Status"
    ELSE IF k = "type" THEN "Type"
    ELSE IF k = "team" THEN "Team"
    ELSE IF k = "category" THEN "Category"
    ELSE IF k = "due_date" THEN "Due Date"
    ELSE IF k = "due" THEN "Due"
    ELSE k

\* the values tried for an option on the command line and in a file
Sample ==
    {"High", "Medium", "QA", "Bug", "Eng", "Done", "Not Started", "Open",
     "Project", "Product"}

CliValues(s, k) ==
    IF Choices(s, k) # {} THEN Choices(s, k) \cap Sample ELSE {"c", ""}

\* a file can hold any word: one that is in no list too
FileValues(s, k) ==
    IF Choices(s, k) # {} THEN (Choices(s, k) \cap Sample) \cup {"Someday"}
    ELSE {"f"}

Values == Sample \cup {"c", "", "f", "Someday", "stdin"}

\* data.get(k, d)
Get(data, k, d) == IF k \in DOMAIN data THEN data[k] ELSE d

InitRecord ==
    /\ lines = <<>>
    /\ src = <<>>
    /\ i = 0
    /\ blocks = <<>>
    /\ requests = <<>>
    /\ existing = <<>>
    /\ has_more = TRUE
    /\ result = NoResult
    /\ remote = <<>>
    /\ pc = "main"
    /\ caller \in Scripts
    /\ \E file, stdin \in BOOLEAN :
       \E G \in SUBSET Keys(caller) :
       \E F \in SUBSET (IF file THEN Keys(caller) \ {"name", "body"} ELSE {}) :
          /\ Cardinality(G \cup F) <= MaxOptions
          /\ \E given \in {g \in [G -> Values] :
                              \A k \in G : g[k] \in CliValues(caller, k)} :
                args = [file |-> file, stdin |-> stdin, given |-> given,
                        ns |-> [k \in Keys(caller) |->
                                   IF k \in G THEN given[k] ELSE Default(caller, k)]]
          /\ \E meta \in {m \in [F -> Values] :
                             \A k \in F : m[k] \in FileValues(caller, k)} :
                markdown = IF file
                           THEN [k \in F \cup {"name", "body"} |->
                                    IF k \in F THEN meta[k] ELSE "f"]
                           ELSE <<>>

\* the test main makes before it overrides the file's value of option k:
\* "if args.priority != "Medium":" for an option with a default,
\* "if args.name:" for one without
Overrides(s, k) ==
    IF Default(s, k) # NoValue THEN args.ns[k] # Default(s, k)
    ELSE Truthy(args.ns[k])

\* if args.file: data = parse_markdown_file(args.file); the overrides
ReadFile ==
    /\ pc = "main"
    /\ args.file
    /\ existing' =
          [k \in DOMAIN markdown \cup {k \in Keys(caller) : Overrides(caller, k)} |->
              IF Overrides(caller, k) THEN args.ns[k] ELSE markdown[k]]
    /\ pc' = "create"
    /\ UNCHANGED <<markdown, lines, i, blocks, src, caller, requests, args, has_more,
                   result, remote>>

\* elif args.name: data = {...}; if args.stdin: data["body"] = sys.stdin.read()
FromArguments ==
    /\ pc = "main"
    /\ ~args.file
    /\ Truthy(args.ns["name"])
    /\ existing' = [k \in Keys(caller) |->
                       IF k = "body" /\ args.stdin THEN "stdin" ELSE args.ns[k]]
    /\ pc' = "create"
    /\ UNCHANGED <<markdown, lines, i, blocks, src, caller, requests, args, has_more,
                   result, remote>>

\* else: parser.error("Either provide a markdown file or use --name")
UsageError ==
    /\ pc = "main"
    /\ ~args.file
    /\ ~Truthy(args.ns["name"])
    /\ pc' = "error"
    /\ UNCHANGED <<markdown, lines, i, blocks, src, caller, requests, client>>

\* the arguments main calls create_ticket, create_task, create_document with
Used == [k \in Keys(caller) |-> Get(existing, k, Default(caller, k))]

\* a create function that sends every option value it is given
SendsUnchecked(s, k, v) ==
    IF k = "name" THEN TRUE
    ELSE IF s = "create-task.py" /\ k = "status" THEN TRUE
    ELSE Truthy(v)

\* whether the create function puts the value v of k among the properties
Sends(s, k, v) ==
    IF k = "name" THEN TRUE
    ELSE IF s = "create-task.py" /\ k = "status" THEN TRUE
    ELSE IF Validated(s, k) THEN Truthy(v) /\ v \in Choices(s, k)
    ELSE Truthy(v)

\* properties of create_ticket, create_task, create_document
Properties(s, u) ==
    LET sent == {k \in Keys(s) \ {"body"} : Sends(s, k, u[k])}
        names == {PropertyName(s, k) : k \in sent}
                    \cup (IF s = "create-ticket.py" THEN {"Status"} ELSE {})
    IN  [p \in names |->
            IF s = "create-ticket.py" /\ p = "Status" THEN "Ingestion"
            ELSE u[CHOOSE k \in sent : PropertyName(s, k) = p]]

\* create_ticket / create_task / create_document: the properties, the blocks
\* of the body, create_page
CreateRecord ==
    /\ pc = "create"
    /\ result' = [used |-> Used, properties |-> Properties(caller, Used)]
    /\ \E o \in Outcomes :
          /\ requests' = Append(requests,
                [method |-> "POST", endpoint |-> "pages", target |-> 0,
                 outcome |-> o, properties |-> Properties(caller, Used),
                 body |-> Used["body"]])
          /\ pc' = IF o = "ok" THEN "done" ELSE "raised"
    /\ UNCHANGED <<markdown, lines, i, blocks, src, caller, args, existing, has_more, remote>>

NextRecord == ReadFile \/ FromArguments \/ UsageError \/ CreateRecord

SpecRecord == InitRecord /\ [][NextRecord]_vars

(***************************************************************************)
(* Vocabulary of the properties                                            *)
(***************************************************************************)
\* the number of lines the scan has passed
Scanned == IF i < Len(lines) THEN i ELSE Len(lines)

\* the blocks that were made from line k (0-based)
BlocksOf(k) == {b \in 1..Len(blocks) : src[b].from <= k /\ k <= src[b].to}

\* block b is a code block opened by a fence line / made from a table run
IsFenceBlock(b) == blocks[b].type = "code" /\ StartsWith(lines[src[b].from + 1], Fence)

IsTableBlock(b) == blocks[b].type = "code" /\ StartsWith(lines[src[b].from + 1], <<"|">>)

\* line k lies inside a code run: after its opening fence, up to its last line
InsideFence(k) ==
    \E b \in 1..Len(blocks) : IsFenceBlock(b) /\ src[b].from < k /\ k <= src[b].to

Checked == <<"-", " ", "[", "x", "]", " ">>

Unchecked == <<"-", " ", "[", " ", "]", " ">>

IsChecklistLine(line) == StartsWith(line, Checked) \/ StartsWith(line, Unchecked)

(***************************************************************************)
(* C1.  Every line of the document that the scan of markdown_to_blocks     *)
(* classifies (a line swallowed by a fenced code run is not classified)    *)
(* and that starts with "- [ ] " or "- [x] " yields exactly one block: a   *)
(* to_do block whose checked flag is true iff the prefix is "- [x] " and   *)
(* whose text is the remainder of the line, trimmed and parsed into spans. *)
(* It is never a bulleted_list_item.                                       *)
(***************************************************************************)
C1_ChecklistYieldsToDo ==
    \A k \in 0..(Scanned - 1) :
        (IsChecklistLine(lines[k + 1]) /\ ~InsideFence(k)) =>
            /\ Cardinality(BlocksOf(k)) = 1
            /\ \A b \in BlocksOf(k) :
                  /\ src[b].from = k /\ src[b].to = k
                  /\ blocks[b] =
                        [type |-> "to_do",
                         rich_text |-> parse_inline_formatting(Strip(Drop(lines[k + 1], 6))),
                         checked |-> StartsWith(lines[k + 1], Checked)]

\* a finished conversion that made a checked and an unchecked to_do block
C1_Witness ==
    /\ pc = "done"
    /\ \E b, c \in 1..Len(blocks) :
          /\ blocks[b].type = "to_do" /\ blocks[b].checked
          /\ blocks[c].type = "to_do" /\ ~blocks[c].checked

(***************************************************************************)
(* C2.  In markdown_to_notion_blocks every line that starts with "- [ ] "  *)
(* or "- [x] " (and is not swallowed by a fenced code run) yields exactly  *)
(* one to_do block with checked = (prefix is "- [x] "): no checklist line  *)
(* is lost.  Checked under SpecSync.                                       *)
(***************************************************************************)
C2_SyncChecklistNotLost ==
    pc = "done" =>
        \A k \in 0..(Len(lines) - 1) :
            (IsChecklistLine(lines[k + 1]) /\ ~InsideFence(k)) =>
                \E b \in 1..Len(blocks) :
                    /\ BlocksOf(k) = {b}
                    /\ blocks[b].type = "to_do"
                    /\ blocks[b].checked = StartsWith(lines[k + 1], Checked)

\* what is left of the scan: 0 once the function has returned
Remaining == IF pc = "done" THEN 0 ELSE Len(lines) + 2 - i

(***************************************************************************)
(* C3.  markdown_to_blocks terminates on every input: every iteration of   *)
(* the line scan moves i forward by at least one and never past            *)
(* len(lines) + 1, also for a table run or an unterminated code fence that *)
(* reaches the end of the input, so that every step of the function        *)
(* brings its return nearer.                                               *)
(***************************************************************************)
C3_ScanTerminates ==
    /\ [](pc = "scan" /\ i < Len(lines) =>
            i < NextIndex(lines, i) /\ NextIndex(lines, i) <= Len(lines) + 1)
    /\ [][pc = "scan" => (Remaining' < Remaining /\ Remaining' >= 0)]_vars

\* the function returned after an unterminated code fence ran to the end of
\* the input, behind a table run
C3_Witness ==
    /\ pc = "done"
    /\ i = Len(lines) + 1
    /\ \E b \in 1..Len(blocks) : IsTableBlock(b) /\ src[b].to > src[b].from

PlainSpan(content) ==
    [content |-> content, bold |-> FALSE, italic |-> FALSE, code |-> FALSE,
     strikethrough |-> FALSE, underline |-> FALSE, color |-> "default"]

\* the text of block b went through parse_inline_formatting
IsParsedBlock(b) == blocks[b].type \notin {"divider", "code"}

(***************************************************************************)
(* C4 as claimed.  Every text-bearing block carries a non-empty rich_text  *)
(* list, and when no run of the pattern matches in a text the list is one  *)
(* plain span holding the whole text.                                      *)
(***************************************************************************)
C4_FallbackHoldsWholeText ==
    \A b \in 1..Len(blocks) :
        blocks[b].type # "divider" =>
            /\ Len(blocks[b].rich_text) >= 1
            /\ (IsParsedBlock(b) /\ FindAll(src[b].text) = <<>>) =>
                  blocks[b].rich_text = <<PlainSpan(src[b].text)>>

(***************************************************************************)
(* C4 as amended.  Every text-bearing block (heading, paragraph, quote,    *)
(* bulleted or numbered item, to_do, code) carries a non-empty rich_text   *)
(* list, and when no run of the pattern matches in a text the list is one  *)
(* plain span holding the text cut to its first 2000 characters.           *)
(***************************************************************************)
C4_RichTextNonEmpty ==
    \A b \in 1..Len(blocks) :
        blocks[b].type # "divider" =>
            /\ Len(blocks[b].rich_text) >= 1
            /\ (IsParsedBlock(b) /\ FindAll(src[b].text) = <<>>) =>
                  /\ Len(src[b].text) <= MaxContent =>
                        blocks[b].rich_text = <<PlainSpan(src[b].text)>>
                  /\ Len(src[b].text) > MaxContent =>
                        blocks[b].rich_text =
                            <<PlainSpan(SubSeq(src[b].text, 1, MaxContent))>>

\* a heading whose text is a lone delimiter, and an empty checklist text:
\* nothing matches, the fallback span is all there is
C4_Witness ==
    /\ pc = "done"
    /\ \E b, c \in 1..Len(blocks) :
          /\ blocks[b].type = "heading_2" /\ src[b].text = <<"*">>
          /\ blocks[c].type = "to_do" /\ src[c].text = <<>>

\* the text of span k of block b before the cut: the k-th match without the
\* delimiters its flags stand for, or the whole text for the fallback span
RawContent(b, k) ==
    LET parts == FindAll(src[b].text)
        span  == blocks[b].rich_text[k]
        d     == IF span.bold THEN 2 ELSE IF span.code \/ span.italic THEN 1 ELSE 0
    IN  IF parts = <<>> THEN src[b].text
        ELSE SubSeq(parts[k], 1 + d, Len(parts[k]) - d)

\* the body of code block b before the cut: the lines of the table run, or
\* the lines between the opening fence and the line that ends the run
RawBody(b) ==
    IF IsTableBlock(b) THEN JoinNL(Slice(lines, src[b].from, src[b].to + 1))
    ELSE JoinNL(Slice(lines, src[b].from + 1, src[b].to))

IsCut(content, raw) ==
    /\ Len(content) <= MaxContent
    /\ Len(raw) <= MaxContent => content = raw
    /\ Len(raw) > MaxContent => content = SubSeq(raw, 1, MaxContent)

(***************************************************************************)
(* C5.  In every block emitted by markdown_to_blocks each span content and *)
(* each code or table body has length at most 2000, and a content longer   *)
(* than 2000 characters is cut to exactly its first 2000 characters.       *)
(***************************************************************************)
C5_ContentsCutAt2000 ==
    \A b \in 1..Len(blocks) :
        /\ IsParsedBlock(b) =>
              \A k \in 1..Len(blocks[b].rich_text) :
                  IsCut(blocks[b].rich_text[k].content, RawContent(b, k))
        /\ blocks[b].type = "code" =>
              /\ Len(blocks[b].rich_text) = 1
              /\ IsCut(blocks[b].rich_text[1].content, RawBody(b))

\* a plain span, a bold span, a table body and a code body were each cut
C5_Witness ==
    /\ pc = "done"
    /\ \E b \in 1..Len(blocks) :
          \/ /\ IsParsedBlock(b)
             /\ Len(RawContent(b, 1)) > MaxContent
             /\ \E c \in 1..Len(blocks) :
                   blocks[c].type = "code" /\ Len(RawBody(c)) > MaxContent
\* the blocks a request carries
Children(r) == IF "children" \in DOMAIN r THEN r.children ELSE <<>>

\* the groups of the requests issued so far, one after the other
RECURSIVE Concatenated(_)
Concatenated(rs) ==
    IF rs = <<>> THEN <<>> ELSE Children(Head(rs)) \o Concatenated(Tail(rs))

\* the block sequence create_page was given
Given == IF blocks = None THEN <<>> ELSE blocks

(***************************************************************************)
(* C6.  create_page (and create_notion_page) issues one create request     *)
(* carrying blocks[0:100] and then one append request per further group of *)
(* at most 100 blocks: no request carries more than 100 blocks, no append  *)
(* is empty, what has been sent is always a prefix of the input, and when  *)
(* the function returns the groups, in the order sent, make up the input.  *)
(* Checked under SpecPage.                                                 *)
(***************************************************************************)
C6_BatchesOfAtMost100 ==
    /\ \A k \in 1..Len(requests) :
          /\ Len(Children(requests[k])) <= BatchSize
          /\ requests[k].method = (IF k = 1 THEN "POST" ELSE "PATCH")
          /\ k > 1 => Children(requests[k]) # <<>>
    /\ requests # <<>> => Children(requests[1]) = Take(Given, BatchSize)
    /\ Concatenated(requests) = Take(Given, Len(Concatenated(requests)))
    /\ pc = "done" => Concatenated(requests) = Given

\* a page whose blocks went out in a create request, a full append and a
\* last, shorter append
C6_Witness ==
    /\ pc = "done"
    /\ Len(requests) = 3
    /\ Len(Children(requests[2])) = BatchSize
    /\ Len(Children(requests[3])) < BatchSize

(***************************************************************************)
(* C7.  A code run opened by a line starting with a triple-backtick fence   *)
(* ends only at a following line that is exactly the fence, or at the end  *)
(* of the input: a line that begins with three backticks and has further   *)
(* text does not end the run.                                              *)
(***************************************************************************)
C7_RunEndsAtBareFenceOnly ==
    \A b \in 1..Len(blocks) :
        (IsFenceBlock(b) /\ src[b].to < Len(lines)) => lines[src[b].to + 1] = Fence

IsTableLine(k) == StartsWith(lines[k + 1], <<"|">>)

\* lines a..b (0-based) are a maximal run of lines that start with |
MaximalRun(a, b) ==
    /\ a <= b
    /\ \A k \in a..b : IsTableLine(k)
    /\ a = 0 \/ ~IsTableLine(a - 1)
    /\ b = Len(lines) - 1 \/ ~IsTableLine(b + 1)

\* lines a..b became exactly one code block tagged "plain text" of that body
OneTableBlock(a, b, body) ==
    \E c \in 1..Len(blocks) :
        /\ blocks[c] = [type |-> "code",
                        rich_text |-> <<[content |-> body]>>,
                        language |-> PlainText]
        /\ src[c].from = a /\ src[c].to = b
        /\ \A k \in a..b : BlocksOf(k) = {c}

(***************************************************************************)
(* C8 as claimed.  Every maximal run of consecutive lines that start with  *)
(* | (outside a fenced code run) yields exactly one code block tagged      *)
(* "plain text" whose body is exactly those lines joined by newline.       *)
(***************************************************************************)
C8_TableBodyVerbatim ==
    pc = "done" =>
        \A a, b \in 0..(Len(lines) - 1) :
            (MaximalRun(a, b) /\ ~InsideFence(a)) =>
                OneTableBlock(a, b, JoinNL(Slice(lines, a, b + 1)))

(***************************************************************************)
(* C8 as amended.  Every maximal run of consecutive lines that start with  *)
(* | (outside a fenced code run) yields exactly one code block tagged      *)
(* "plain text" whose body is those lines joined by newline, cut to its    *)
(* first 2000 characters when it is longer; runs separated by a blank line *)
(* yield separate blocks.                                                  *)
(***************************************************************************)
C8_TableBodyCutAt2000 ==
    pc = "done" =>
        \A a, b \in 0..(Len(lines) - 1) :
            (MaximalRun(a, b) /\ ~InsideFence(a)) =>
                LET raw == JoinNL(Slice(lines, a, b + 1))
                IN  OneTableBlock(a, b, IF Len(raw) > MaxContent
                                        THEN SubSeq(raw, 1, MaxContent) ELSE raw)

\* two | lines with a blank line between them became two code blocks
C8_Witness ==
    /\ pc = "done"
    /\ Len(lines) = 3
    /\ IsTableLine(0) /\ lines[2] = <<>> /\ IsTableLine(2)
    /\ Len(blocks) = 2

\* the number of # characters a line starts with
Hashes(line) ==
    LET other == {k \in 1..Len(line) : line[k] # "#"}
    IN  IF other = {} THEN Len(line) ELSE Min(other) - 1

\* n or more # and then a space: a heading of level n or deeper
HeadingOfLevel(line, n) ==
    /\ Hashes(line) >= n
    /\ Hashes(line) < Len(line)
    /\ line[Hashes(line) + 1] = " "

\* line k became exactly one block of this type with this text, parsed
OneTextBlock(k, type, text) ==
    \E b \in 1..Len(blocks) :
        /\ BlocksOf(k) = {b}
        /\ src[b].from = k /\ src[b].to = k
        /\ blocks[b] = [type |-> type, rich_text |-> parse_inline_formatting(text)]

(***************************************************************************)
(* C9.  A line of heading level 4 or deeper (four or more # and a space)   *)
(* that the scan classifies converts to exactly one heading_3 block whose  *)
(* text is the rest of the line.                                           *)
(***************************************************************************)
C9_Level4AndDeeperIsHeading3 ==
    \A k \in 0..(Scanned - 1) :
        (HeadingOfLevel(lines[k + 1], 4) /\ ~InsideFence(k)) =>
            OneTextBlock(k, "heading_3",
                         Strip(Drop(lines[k + 1], Hashes(lines[k + 1]) + 1)))

\* the trimmed text after the opening fence of code block b
Tag(b) == Strip(Drop(lines[src[b].from + 1], 3))

(***************************************************************************)
(* C10.  The language tag of every code block emitted by                   *)
(* markdown_to_blocks is "plain text" or a member of the allow-list: the   *)
(* trimmed text after the opening fence is kept when it is in the          *)
(* allow-list and replaced by "plain text" when it is empty or not in the  *)
(* allow-list; a table block is tagged "plain text".                       *)
(***************************************************************************)
C10_LanguageFromAllowList ==
    \A b \in 1..Len(blocks) :
        blocks[b].type = "code" =>
            /\ blocks[b].language = PlainText \/ blocks[b].language \in valid_langs
            /\ (IsFenceBlock(b) /\ Tag(b) \in valid_langs) => blocks[b].language = Tag(b)
            /\ (IsFenceBlock(b) /\ Tag(b) \notin valid_langs) => blocks[b].language = PlainText
            /\ IsTableBlock(b) => blocks[b].language = PlainText

\* one code block kept its tag, one had an unknown tag replaced, one had none
C10_Witness ==
    /\ pc = "done"
    /\ \E b, c \in 1..Len(blocks) :
          /\ IsFenceBlock(b) /\ blocks[b].language = <<"p", "y", "t", "h", "o", "n">>
          /\ IsFenceBlock(c) /\ Tag(c) = <<"f", "o", "o">> /\ blocks[c].language = PlainText
\* a span with no style flag set
IsPlain(sp) == ~sp.bold /\ ~sp.italic /\ ~sp.code

(***************************************************************************)
(* C11.  In the span sequence parse_inline_formatting builds for any text, *)
(* no two adjacent spans are both plain (all style flags false).           *)
(* Checked under SpecParse.                                                *)
(***************************************************************************)
C11_NoAdjacentPlainSpans ==
    \A k \in 1..(Len(blocks) - 1) : ~(IsPlain(blocks[k]) /\ IsPlain(blocks[k + 1]))

\* d x d: d, one or more characters that are not c, d (d is <<c>> or <<c, c>>)
IsRun(part, d, c) ==
    /\ Len(part) > 2 * Len(d)
    /\ StartsWith(part, d) /\ EndsWith(part, d)
    /\ \A q \in (Len(d) + 1)..(Len(part) - Len(d)) : part[q] # c

\* the part with n characters taken off each end
Inner(part, n) == SubSeq(part, n + 1, Len(part) - n)

\* the span with this content and these flags
Styled(content, bold, italic, code) ==
    [content |-> content, bold |-> bold, italic |-> italic, code |-> code,
     strikethrough |-> FALSE, underline |-> FALSE, color |-> "default"]

\* the content of a span: the first 2000 characters
Cut(s) == IF Len(s) > MaxContent THEN SubSeq(s, 1, MaxContent) ELSE s

(***************************************************************************)
(* C12.  parse_inline_formatting scans left to right taking                *)
(* non-overlapping runs: the parts are substrings of the text at           *)
(* increasing, disjoint positions; a part that is a code run gives a code  *)
(* span, else one that is **x** (no * in x) gives one bold span with       *)
(* content x and is never italic, else one that is *x* or _x_ gives an     *)
(* italic span, else a plain span.  The text                               *)
(* "Hello **bold** and (BT)code(BT) and *italic*" gives exactly            *)
(* plain("Hello "), bold("bold"), plain(" and "), code("code"),            *)
(* plain(" and "), italic("italic").  Checked under SpecParse.             *)
(***************************************************************************)
C12_ScanPriority ==
    /\ \A k \in 1..Len(lines) :
          /\ 1 <= src[k].from /\ src[k].from <= src[k].to /\ src[k].to <= Len(markdown)
          /\ lines[k] = SubSeq(markdown, src[k].from, src[k].to)
          /\ k < Len(lines) => src[k].to < src[k + 1].from
    /\ \A k \in 1..Len(lines) :
          k <= Len(blocks) =>
             IF IsRun(lines[k], <<BT>>, BT)
             THEN blocks[k] = Styled(Cut(Inner(lines[k], 1)), FALSE, FALSE, TRUE)
             ELSE IF IsRun(lines[k], <<"*", "*">>, "*")
             THEN blocks[k] = Styled(Cut(Inner(lines[k], 2)), TRUE, FALSE, FALSE)
             ELSE IF IsRun(lines[k], <<"*">>, "*") \/ IsRun(lines[k], <<"_">>, "_")
             THEN blocks[k] = Styled(Cut(Inner(lines[k], 1)), FALSE, TRUE, FALSE)
             ELSE blocks[k] = Styled(Cut(lines[k]), FALSE, FALSE, FALSE)
    /\ (pc = "done" /\ IsRun(markdown, <<"*", "*">>, "*")) =>
          blocks = <<Styled(Cut(Inner(markdown, 2)), TRUE, FALSE, FALSE)>>
    /\ (pc = "done" /\ markdown = Example) =>
          blocks = << Styled(<<"H", "e", "l", "l", "o", " ">>, FALSE, FALSE, FALSE),
                      Styled(<<"b", "o", "l", "d">>, TRUE, FALSE, FALSE),
                      Styled(<<" ", "a", "n", "d", " ">>, FALSE, FALSE, FALSE),
                      Styled(<<"c", "o", "d", "e">>, FALSE, FALSE, TRUE),
                      Styled(<<" ", "a", "n", "d", " ">>, FALSE, FALSE, FALSE),
                      Styled(<<"i", "t", "a", "l", "i", "c">>, FALSE, TRUE, FALSE) >>

\* the example text has been parsed into its six spans
C12_Witness ==
    /\ pc = "done"
    /\ markdown = Example
    /\ Len(blocks) = 6
    /\ blocks[2].bold /\ blocks[4].code /\ blocks[6].italic

\* the number of style flags a span has set
Flags(sp) ==
    (IF sp.bold THEN 1 ELSE 0) + (IF sp.italic THEN 1 ELSE 0) + (IF sp.code THEN 1 ELSE 0)

(***************************************************************************)
(* C13.  Every span parse_inline_formatting builds has at most one of the  *)
(* flags bold, italic, code set: exactly one for a delimited run, whose    *)
(* content is the run without its delimiters, and none for plain text and  *)
(* for the fallback span; strikethrough and underline are false and color  *)
(* is "default".  Checked under SpecParse.                                 *)
(***************************************************************************)
C13_AtMostOneFlag ==
    /\ \A k \in 1..Len(blocks) :
          /\ Flags(blocks[k]) <= 1
          /\ ~blocks[k].strikethrough /\ ~blocks[k].underline
          /\ blocks[k].color = "default"
    /\ \A k \in 1..Len(lines) :
          k <= Len(blocks) =>
             IF lines[k][1] \in Delims
             THEN /\ Flags(blocks[k]) = 1
                  /\ blocks[k].content =
                        Cut(Inner(lines[k], IF blocks[k].bold THEN 2 ELSE 1))
                  /\ blocks[k].bold <=> StartsWith(lines[k], <<"*", "*">>)
                  /\ blocks[k].code <=> lines[k][1] = BT
             ELSE /\ Flags(blocks[k]) = 0
                  /\ blocks[k].content = Cut(lines[k])
    /\ (pc = "done" /\ lines = <<>>) => Flags(blocks[1]) = 0

\* a text was parsed into spans among which one is bold, one italic, one code
\* and one plain
C13_Witness ==
    /\ pc = "done"
    /\ \E a, b, c, d \in 1..Len(blocks) :
          /\ blocks[a].bold /\ blocks[b].italic /\ blocks[c].code
          /\ Flags(blocks[d]) = 0
\* the number of digits a line starts with
LeadingDigits(line) ==
    LET other == {k \in 1..Len(line) : ~IsDigit(line[k])}
    IN  IF other = {} THEN Len(line) ELSE Min(other) - 1

\* one or more digits, a dot and a whitespace character
HasNumericPrefix(line) ==
    /\ LeadingDigits(line) >= 1
    /\ LeadingDigits(line) + 2 <= Len(line)
    /\ line[LeadingDigits(line) + 1] = "."
    /\ IsSpace(line[LeadingDigits(line) + 2])

(***************************************************************************)
(* C14.  Every line that the scan of markdown_to_blocks classifies and     *)
(* that begins with one or more digits, a dot and a whitespace character   *)
(* yields exactly one numbered_list_item block whose text is the line with *)
(* that numeric prefix removed (trimmed and parsed into spans): the digits *)
(* of the prefix are not part of the block text.                           *)
(***************************************************************************)
C14_NumberedPrefixRemoved ==
    \A k \in 0..(Scanned - 1) :
        (HasNumericPrefix(lines[k + 1]) /\ ~InsideFence(k)) =>
            OneTextBlock(k, "numbered_list_item",
                         Strip(Drop(lines[k + 1], LeadingDigits(lines[k + 1]) + 2)))

\* a line with a prefix of two digits became a numbered item without them
C14_Witness ==
    /\ pc = "done"
    /\ \E b \in 1..Len(blocks) :
          /\ blocks[b].type = "numbered_list_item"
          /\ LeadingDigits(lines[src[b].from + 1]) = 2
          /\ blocks[b].rich_text[1].content = <<"3", " ", "g">>

Dashes == <<"-", "-", "-">>

(***************************************************************************)
(* C15.  A line that the scan classifies yields a divider block if and     *)
(* only if it equals --- after trimming surrounding whitespace; the lines  *)
(* "-- -" and "----" yield no divider block; the divider is the only block *)
(* of its line and carries no text.                                        *)
(***************************************************************************)
C15_DividerExactness ==
    \A k \in 0..(Scanned - 1) :
        ~InsideFence(k) =>
            /\ (\E b \in BlocksOf(k) : blocks[b].type = "divider")
                  <=> Strip(lines[k + 1]) = Dashes
            /\ \A b \in BlocksOf(k) :
                  blocks[b].type = "divider" =>
                      /\ BlocksOf(k) = {b}
                      /\ src[b].from = k /\ src[b].to = k
                      /\ DOMAIN blocks[b] = {"type"}

\* a line of three dashes between spaces became a divider, a line of four
\* dashes or "-- -" did not
C15_Witness ==
    /\ pc = "done"
    /\ Len(lines) = 2 /\ Len(blocks) = 2
    /\ lines[1] = <<" ", "-", "-", "-", " ">> /\ blocks[1].type = "divider"
    /\ lines[2] \in {<<"-", "-", "-", "-">>, <<"-", "-", " ", "-">>}
    /\ blocks[2].type = "paragraph"

(***************************************************************************)
(* C16.  No block is produced from a line that starts with "# " outside a  *)
(* code run, wherever it occurs in the document, and none from a blank     *)
(* line.                                                                   *)
(***************************************************************************)
C16_H1AndBlankSkipped ==
    \A k \in 0..(Scanned - 1) :
        ( /\ ~InsideFence(k)
          /\ StartsWith(lines[k + 1], <<"#", " ">>) \/ Strip(lines[k + 1]) = <<>> ) =>
            BlocksOf(k) = {}

\* a level-1 heading that is not the first line was skipped
C16_Witness ==
    /\ pc = "done"
    /\ Len(lines) = 2
    /\ StartsWith(lines[2], <<"#", " ">>)
    /\ Len(blocks) = 1 /\ src[1].from = 0

\* the line (0-based) that closes the code run opened at line a: the first
\* line after a that starts with the fence, Len(lines) when there is none
RunClose(a) ==
    LET closing == {k \in (a + 1)..(Len(lines) - 1) : StartsWith(lines[k + 1], Fence)}
    IN  IF closing = {} THEN Len(lines) ELSE Min(closing)

(***************************************************************************)
(* C17 as claimed.  Between an opening fence and the line that closes the  *)
(* code run, every line is captured into the code body verbatim and in     *)
(* order, joined by newlines, and produces no block of its own.            *)
(***************************************************************************)
C17_FenceBodyVerbatim ==
    \A b \in 1..Len(blocks) :
        IsFenceBlock(b) =>
            /\ blocks[b].rich_text =
                  <<[content |-> JoinNL(Slice(lines, src[b].from + 1, RunClose(src[b].from)))]>>
            /\ \A k \in (src[b].from + 1)..(RunClose(src[b].from) - 1) : BlocksOf(k) = {b}

(***************************************************************************)
(* C17 as amended.  Between an opening fence and the line that closes the  *)
(* code run, every line is captured into the code body in order, joined by *)
(* newlines, the body being cut to its first 2000 characters when it is    *)
(* longer: blank lines are kept, and lines that would otherwise be         *)
(* headings, list items, dividers or table rows are not classified and     *)
(* produce no block of their own.                                          *)
(***************************************************************************)
C17_FenceBodyCutAt2000 ==
    \A b \in 1..Len(blocks) :
        IsFenceBlock(b) =>
            /\ blocks[b].rich_text =
                  <<[content |-> Cut(JoinNL(Slice(lines, src[b].from + 1,
                                                  RunClose(src[b].from))))]>>
            /\ \A k \in (src[b].from + 1)..(RunClose(src[b].from) - 1) : BlocksOf(k) = {b}

\* a code run kept a blank line and a level-1 heading line in its body, and
\* no other block was made
C17_Witness ==
    /\ pc = "done"
    /\ Len(lines) = 3 /\ Len(blocks) = 1
    /\ IsFenceBlock(1)
    /\ lines[2] = <<>>
    /\ lines[3] = <<"#", " ", "T">>
    /\ blocks[1].rich_text[1].content = <<"\n", "#", " ", "T">>

\* the line passes the test of one of the rules before the paragraph rule
MatchesSomeRule(line) ==
    \/ \E p \in { <<"#", " ">>, <<"#", "#", " ">>, <<"#", "#", "#", " ">>,
                  <<"#", "#", "#", "#", " ">>, <<">", " ">>, <<"-", " ">>,
                  <<"*", " ">>, <<"|">>, Fence } : StartsWith(line, p)
    \/ Strip(line) = Dashes
    \/ HasNumericPrefix(line)

(***************************************************************************)
(* C18.  A line that the scan classifies, that is non-empty after trimming *)
(* and matches none of the heading, divider, quote, checklist, bullet,     *)
(* numbered, table or fence rules yields exactly one paragraph block whose *)
(* spans are parse_inline_formatting applied to the trimmed line.          *)
(***************************************************************************)
C18_ParagraphOfTrimmedLine ==
    \A k \in 0..(Scanned - 1) :
        ( /\ ~InsideFence(k)
          /\ Strip(lines[k + 1]) # <<>>
          /\ ~MatchesSomeRule(lines[k + 1]) ) =>
            OneTextBlock(k, "paragraph", Strip(lines[k + 1]))

\* a line with spaces around it became a paragraph of two spans
C18_Witness ==
    /\ pc = "done"
    /\ \E b \in 1..Len(blocks) :
          /\ blocks[b].type = "paragraph"
          /\ lines[src[b].from + 1] # Strip(lines[src[b].from + 1])
          /\ Len(blocks[b].rich_text) = 2
Failed(k) == requests[k].outcome # "ok"

\* requests j and k are the same request
SameRequest(j, k) ==
    /\ requests[j].method = requests[k].method
    /\ requests[j].endpoint = requests[k].endpoint
    /\ requests[j].target = requests[k].target

(***************************************************************************)
(* C20.  Every failed remote call of update_page and search_in_database    *)
(* surfaces to the caller as an error (the operation raises and does not   *)
(* return normally), and a failed request is never issued again.           *)
(* Checked under SpecClient.                                               *)
(***************************************************************************)
C20_FailuresSurfaceNoRetry ==
    /\ \A k \in 1..Len(requests) :
          Failed(k) => (pc # "done" /\ (k < Len(requests) => pc = "raised"))
    /\ \A j, k \in 1..Len(requests) :
          (j < k /\ Failed(j)) => ~SameRequest(j, k)

(***************************************************************************)
(* Vocabulary of the calls against the kept store                          *)
(***************************************************************************)
IsDelete(k) == requests[k].method = "DELETE"

IsAppend(k) == requests[k].method = "PATCH" /\ requests[k].endpoint = "children"

IsListing(k) == requests[k].method = "GET"

AllSucceeded == \A k \in 1..Len(requests) : requests[k].outcome = "ok"

\* the calls that replace the children of the page
ReplacingCall ==
    \/ caller = "update_notion_page"
    \/ /\ caller = "update_page"
       /\ args.replace_blocks
       /\ blocks # None
       /\ blocks # <<>>

(***************************************************************************)
(* C23: in update_page with replace_blocks=True and a non-empty block      *)
(* list, and in update_notion_page, when every request has succeeded and   *)
(* the call has returned, every delete request was issued before the first *)
(* append request, every child the page had was deleted, and the children  *)
(* of the page are exactly the new blocks in their order.                  *)
(***************************************************************************)
C23_ReplaceLeavesNewBlocks ==
    (pc = "done" /\ ReplacingCall /\ AllSucceeded) =>
        /\ \A j, k \in 1..Len(requests) : (IsDelete(j) /\ IsAppend(k)) => j < k
        /\ \A c \in 1..Len(remote.initial) :
              \E k \in 1..Len(requests) :
                 IsDelete(k) /\ requests[k].target = remote.initial[c]
        /\ remote.children = blocks

\* a returned call that had more than one listing of children to delete and
\* more than one batch to append
C23_Witness ==
    /\ pc = "done"
    /\ ReplacingCall
    /\ AllSucceeded
    /\ Len(remote.initial) > PageSize
    /\ Len(blocks) > BatchSize
    /\ \E k \in 1..Len(requests) : IsDelete(k)
    /\ \E k \in 1..Len(requests) : IsAppend(k)

(***************************************************************************)
(* C24: the delete-existing-blocks loop of update_page and of              *)
(* update_notion_page terminates: a call that has reached the listing loop *)
(* leaves it, for the append, by raising or by returning, whenever every   *)
(* request is answered, also when deletions fail and are swallowed.        *)
(***************************************************************************)
C24_DeleteLoopTerminates ==
    (pc = "list") ~> (pc \in {"batches", "raised", "return", "done"})

(***************************************************************************)
(* C28: update_page called with replace_blocks=True and blocks None or     *)
(* empty issues no listing, no delete and no append request and leaves the *)
(* children of the page as they were; without properties it issues no      *)
(* request at all.                                                         *)
(***************************************************************************)
C28_NoBlocksNoReplace ==
    (/\ caller = "update_page"
     /\ args.replace_blocks
     /\ (blocks = None \/ blocks = <<>>)) =>
        /\ \A k \in 1..Len(requests) : ~IsDelete(k) /\ ~IsAppend(k) /\ ~IsListing(k)
        /\ remote.children = remote.initial
        /\ ~args.properties => requests = <<>>

\* a returned call with replace_blocks=True, properties and no blocks, on a
\* page that has children
C28_Witness ==
    /\ pc = "done"
    /\ caller = "update_page"
    /\ args.replace_blocks
    /\ args.properties
    /\ blocks = None
    /\ Len(remote.initial) > PageSize
    /\ Len(requests) = 1
    /\ AllSucceeded

(***************************************************************************)
(* C21: a run of sync-problem-to-notion.py issues a create-page request    *)
(* only when no page with the file's title exists (when one exists the run *)
(* updates it), so that repeated syncs of the same file never leave two    *)
(* pages with the same title.                                              *)
(***************************************************************************)
C21_CreateOnlyWhenNoPage ==
    /\ \A k \in 1..Len(requests) :
          (requests[k].endpoint = "pages" /\ requests[k].method = "POST")
              => requests[k].pages = 0
    /\ remote.pages <= 1

(***************************************************************************)
(* Vocabulary of the record scripts                                        *)
(***************************************************************************)
Created == pc \in {"done", "raised"} /\ caller \in Scripts

\* the option lists of the properties that have one
OptionKeys(s) == {k \in Keys(s) : Choices(s, k) # {}}

(***************************************************************************)
(* C22: in create-ticket.py, create-task.py and create-document.py, when a *)
(* markdown file is given, the value used to create the record is, for     *)
(* every option the user wrote on the command line, the command-line value *)
(* and not the value parsed from the file.                                 *)
(***************************************************************************)
C22_CommandLineOverridesFile ==
    (Created /\ args.file) =>
        \A k \in DOMAIN args.given : result.used[k] = args.given[k]

(***************************************************************************)
(* C29: every value create_ticket and create_document send for a property *)
(* that has an option list (Priority, Stage, Type, Team, Category, the     *)
(* document Status) is in that list, a value outside the list being left   *)
(* out of the request; the Status create_ticket sends is "Ingestion".      *)
(***************************************************************************)
C29_OptionValuesAllowed ==
    (Created /\ caller # "create-task.py") =>
        /\ \A k \in OptionKeys(caller) :
              LET p == PropertyName(caller, k)
              IN  /\ p \in DOMAIN result.properties =>
                        result.properties[p] \in Choices(caller, k)
                  /\ result.used[k] \notin Choices(caller, k) =>
                        p \notin DOMAIN result.properties
        /\ caller = "create-ticket.py" => result.properties["Status"] = "Ingestion"

\* a ticket made from a file whose priority is in no list and whose type is
\* in the list: the one is left out, the other sent
C29_Witness ==
    /\ Created
    /\ caller = "create-ticket.py"
    /\ args.file
    /\ "priority" \in DOMAIN markdown
    /\ markdown["priority"] = "Someday"
    /\ "Priority" \notin DOMAIN result.properties
    /\ "Type" \in DOMAIN result.properties

(***************************************************************************)
(* C30: the Status and the Priority create_task sends are in TASK_STATUS   *)
(* and TASK_PRIORITY, also when the value comes from the **Status:** or    *)
(* **Priority:** metadata of a markdown file.                              *)
(***************************************************************************)
C30_TaskOptionsAllowed ==
    (Created /\ caller = "create-task.py") =>
        /\ "Status" \in DOMAIN result.properties =>
              result.properties["Status"] \in TASK_STATUS
        /\ "Priority" \in DOMAIN result.properties =>
              result.properties["Priority"] \in TASK_PRIORITY

\* the language tag of a line that begins with three backticks
TagOf(line) == Strip(Drop(line, 3))

\* each language tag of the document is in both allow-lists or in neither
TagsAgree ==
    \A k \in 1..Len(lines) :
       StartsWith(lines[k], Fence) =>
          (TagOf(lines[k]) \in valid_langs <=> TagOf(lines[k]) \in sync_valid_langs)

(***************************************************************************)
(* C25: for every document whose code-fence language tags are each in both *)
(* allow-lists or in neither, markdown_to_notion_blocks returns the block  *)
(* sequence markdown_to_blocks returns.                                    *)
(***************************************************************************)
C25_ConvertersAgree ==
    (pc = "done" /\ caller = "sync" /\ TagsAgree) => blocks = result[1]

\* the number of delimiter characters at each end of a part
DelimLen(part) ==
    IF IsRun(part, <<BT>>, BT) THEN 1
    ELSE IF IsRun(part, <<"*", "*">>, "*") THEN 2
    ELSE IF IsRun(part, <<"*">>, "*") \/ IsRun(part, <<"_">>, "_") THEN 1
    ELSE 0

\* position p of the text is not a delimiter of a matched run
Kept(p) ==
    \A k \in 1..Len(lines) :
       (src[k].from <= p /\ p <= src[k].to) =>
          /\ src[k].from + DelimLen(lines[k]) <= p
          /\ p <= src[k].to - DelimLen(lines[k])

\* the text from position p on without the delimiters of its matched runs
RECURSIVE KeptFrom(_)
KeptFrom(p) ==
    IF p > Len(markdown) THEN <<>>
    ELSE (IF Kept(p) THEN <<markdown[p]>> ELSE <<>>) \o KeptFrom(p + 1)

\* the contents of the spans from span k on, concatenated
RECURSIVE JoinedFrom(_)
JoinedFrom(k) ==
    IF k > Len(blocks) THEN <<>> ELSE blocks[k].content \o JoinedFrom(k + 1)

\* no span is cut: every content stays within 2000 characters
WithinLimit ==
    /\ \A k \in 1..Len(lines) : Len(lines[k]) - 2 * DelimLen(lines[k]) <= MaxContent
    /\ Len(lines) = 0 => Len(markdown) <= MaxContent

(***************************************************************************)
(* C26: for every text whose spans all stay within 2000 characters, the    *)
(* contents of the spans parse_inline_formatting returns, concatenated,    *)
(* are the text without the delimiters of its matched code, bold and       *)
(* italic runs: no other character (an unpaired *, _ or backtick) is       *)
(* dropped.  Checked under SpecParse.                                      *)
(***************************************************************************)
C26_OnlyDelimitersDropped ==
    (pc = "done" /\ WithinLimit) => JoinedFrom(1) = KeptFrom(1)

\* the lines that are not blank, by index
NonBlank == {k \in 0..(Len(lines) - 1) : Strip(lines[k + 1]) # <<>>}

(***************************************************************************)
(* C27: in markdown_to_blocks each line contributes to at most one block   *)
(* and the blocks are in the order of the lines they come from (the line   *)
(* ranges of consecutive blocks are disjoint and increasing), so that the  *)
(* number of blocks is never more than the number of non-blank lines.      *)
(***************************************************************************)
C27_OneBlockPerLineInOrder ==
    /\ \A b \in 1..Len(blocks) : 0 <= src[b].from /\ src[b].from <= src[b].to
    /\ \A a, b \in 1..Len(blocks) : a < b => src[a].to < src[b].from
    /\ Len(blocks) <= Cardinality(NonBlank)

\* a returned list of two or more blocks, one of them made of several lines,
\* from a document that has a line giving no block
C27_Witness ==
    /\ pc = "done"
    /\ Len(blocks) >= 2
    /\ \E b \in 1..Len(blocks) : src[b].to > src[b].from
    /\ Len(blocks) < Len(lines)
====
